---- MODULE Spec2Model ----
(***************************************************************************)
(* Model of the sign-language recognition hook useSignLanguage             *)
(* (src/unnamed/part_000): finger-state extraction, the static pose        *)
(* classifier recognizeASL, the eight gesture motion detectors and the     *)
(* onResults frame handler with its letter and gesture stabilizers.        *)
(*                                                                         *)
(* Units.  Landmark coordinates are integers in hundredths of the          *)
(* normalized image (0.12 is 12).  Distances are compared through their    *)
(* squares, so "dist < 0.12" is "dist2 < 144" and "a > b * 1.1" is         *)
(* "100 * a2 > 121 * b2".  A hand center is kept as the SUM of the 21      *)
(* landmark coordinates (21 times the centroid), so "y < 0.4" is           *)
(* "y < C(40)"; this keeps the centroid division exact.  Confidences are   *)
(* hundredths (0.7 is 70).  Times are milliseconds.  Angles are            *)
(* microradians.  The camera lifecycle (initialize, stop, the processFrame *)
(* loop) and the text buttons are modelled after the frame handler.        *)
(***************************************************************************)
EXTENDS Integers, Sequences, FiniteSets, TLC

VARIABLES
    mode,                 \* hook argument: "static" or "motion"
    clock,                \* Date.now()
    detectionResult,      \* useState detectionResult
    motionDetectionResult,\* useState motionDetectionResult
    detectedText,         \* useState detectedText (sequence of characters)
    detectionHistory,     \* detectionHistoryRef.current
    lastDetectionTime,    \* lastDetectionTimeRef.current
    handDetectedFrames,   \* handDetectedFramesRef.current
    handLostFrames,       \* handLostFramesRef.current
    isHandStable,         \* isHandStableRef.current
    motionFrames,         \* motionFramesRef.current
    lastMotionTime,       \* lastMotionTimeRef.current
    faceResults,          \* faceResultsRef.current
    faceDetectionState,   \* module-level faceDetectionState
    isInitialized,        \* useState isInitialized
    handsRef,             \* handsRef.current: 0 (null) or the number of the Hands instance
    faceMeshRef,          \* faceMeshRef.current is set
    streamRef,            \* streamRef.current is set
    animationFrameRef,    \* animationFrameRef.current: 0 (null) or a request id
    runtime,              \* the JavaScript runtime: async calls in flight, frame requests
    env,                  \* environment: the scripted scene in front of the camera
    frameNo,              \* number of frames delivered so far
    appended,             \* history: frames appended since the buffer was last cleared
    tick                  \* history: what the last onResults call did

\* the recognition state, and the state of the camera lifecycle
hookVars == <<mode, clock, detectionResult, motionDetectionResult, detectedText,
              detectionHistory, lastDetectionTime, handDetectedFrames, handLostFrames,
              isHandStable, motionFrames, lastMotionTime, faceResults,
              faceDetectionState, env, frameNo, appended, tick>>
lifeVars == <<isInitialized, handsRef, faceMeshRef, streamRef, animationFrameRef,
              runtime>>

vars == <<hookVars, lifeVars>>

Null == "null"

-----------------------------------------------------------------------------
(* Landmark indices *)
WRIST == 0
THUMB_TIP == 4
THUMB_MCP == 2
INDEX_MCP == 5
INDEX_PIP == 6
INDEX_TIP == 8
MIDDLE_MCP == 9
MIDDLE_PIP == 10
MIDDLE_TIP == 12
RING_PIP == 14
RING_TIP == 16
PINKY_PIP == 18
PINKY_TIP == 20

Abs(n) == IF n < 0 THEN -n ELSE n

Pt(px, py) == [x |-> px, y |-> py]

\* squared Euclidean distance of two landmarks (Math.sqrt(pow(dx,2)+pow(dy,2)), squared)
Dist2(a, b) == (a.x - b.x) * (a.x - b.x) + (a.y - b.y) * (a.y - b.y)

Max2(a, b) == IF a >= b THEN a ELSE b
Min2(a, b) == IF a <= b THEN a ELSE b

\* sqrt(A2) - sqrt(B2) < c/100, for squared distances A2 >= B2 >= 0 and c > 0:
\*   sqrt(A2) < sqrt(B2) + c  <=>  A2 - B2 - c^2 < 2 c sqrt(B2)
SqrtDiffLess(A2, B2, c) ==
    LET l == A2 - B2 - c * c
    IN  l < 0 \/ l * l < 4 * c * c * B2

-----------------------------------------------------------------------------
(* Finger-State Extractor *)

isFingerExtended(landmarks, tipIdx, pipIdx) ==
    LET wrist == landmarks[WRIST]
        tipDist2 == Dist2(landmarks[tipIdx], wrist)
        pipDist2 == Dist2(landmarks[pipIdx], wrist)
    IN  100 * tipDist2 > 121 * pipDist2

isThumbExtended(landmarks) ==
    LET tipDist2 == Dist2(landmarks[THUMB_TIP], landmarks[WRIST])
        refDist2 == Dist2(landmarks[5], landmarks[WRIST])
    IN  100 * tipDist2 > 144 * refDist2

getFingerStates(landmarks) ==
    [thumb  |-> isThumbExtended(landmarks),
     index  |-> isFingerExtended(landmarks, INDEX_TIP, INDEX_PIP),
     middle |-> isFingerExtended(landmarks, MIDDLE_TIP, MIDDLE_PIP),
     ring   |-> isFingerExtended(landmarks, RING_TIP, RING_PIP),
     pinky  |-> isFingerExtended(landmarks, PINKY_TIP, PINKY_PIP)]

B2N(b) == IF b THEN 1 ELSE 0

Res(l, c) == [letter |-> l, confidence |-> c]

-----------------------------------------------------------------------------
(* Static Pose Classifier: recognizeASL.  Each "if (...) { ... return }"   *)
(* block of the source is one rule; a rule that does not return yields     *)
(* Miss and control falls through to the next block.                       *)

Miss == [letter |-> "miss", confidence |-> 0]

OnlyThumb(f) == ~f.index /\ ~f.middle /\ ~f.ring /\ ~f.pinky /\ f.thumb
IndexMiddleNoThumb(f) == f.index /\ f.middle /\ ~f.ring /\ ~f.pinky /\ ~f.thumb
IndexMiddleThumb(f) == f.index /\ f.middle /\ ~f.ring /\ ~f.pinky /\ f.thumb

\* faulty variant of RuleE: the thumb must be within half the reference distance
RuleEHalf(lm, f) ==
    LET extendedCount == B2N(f.thumb) + B2N(f.index) + B2N(f.middle)
                         + B2N(f.ring) + B2N(f.pinky)
        thumbDist2 == Dist2(lm[THUMB_TIP], lm[WRIST])
        refDist2 == Dist2(lm[5], lm[WRIST])
    IN  IF extendedCount = 0 /\ 100 * thumbDist2 < 25 * refDist2
        THEN Res("E", 90) ELSE Miss

RuleE(lm, f) ==
    LET extendedCount == B2N(f.thumb) + B2N(f.index) + B2N(f.middle)
                         + B2N(f.ring) + B2N(f.pinky)
        thumbDist2 == Dist2(lm[THUMB_TIP], lm[WRIST])
        refDist2 == Dist2(lm[5], lm[WRIST])
    IN  IF extendedCount = 0 /\ 100 * thumbDist2 < 49 * refDist2
        THEN Res("E", 90) ELSE Miss

\* faulty variant of RuleO: a distance of exactly 0.12 is still O
RuleOInclusive(lm, f) ==
    IF OnlyThumb(f) /\ Dist2(lm[THUMB_TIP], lm[INDEX_TIP]) <= 144
    THEN Res("O", 85) ELSE Miss

RuleO(lm, f) ==
    IF OnlyThumb(f) /\ Dist2(lm[THUMB_TIP], lm[INDEX_TIP]) < 144
    THEN Res("O", 85) ELSE Miss

RuleT(lm, f) ==
    IF /\ OnlyThumb(f)
       /\ Dist2(lm[THUMB_TIP], lm[INDEX_PIP]) < 144
       /\ Dist2(lm[THUMB_TIP], lm[MIDDLE_PIP]) < 144
    THEN Res("T", 80) ELSE Miss

RuleA(lm, f) ==
    IF OnlyThumb(f) /\ Dist2(lm[THUMB_TIP], lm[INDEX_TIP]) >= 144
    THEN Res("A", 90) ELSE Miss

RuleB(lm, f) ==
    IF f.index /\ f.middle /\ f.ring /\ f.pinky /\ ~f.thumb
    THEN Res("B", 90) ELSE Miss

RuleC(lm, f) ==
    LET thumbDist2 == Dist2(lm[THUMB_TIP], lm[WRIST])
        indexDist2 == Dist2(lm[INDEX_TIP], lm[WRIST])
        middleDist2 == Dist2(lm[MIDDLE_TIP], lm[WRIST])
        ringDist2 == Dist2(lm[RING_TIP], lm[WRIST])
        pinkyDist2 == Dist2(lm[PINKY_TIP], lm[WRIST])
        maxDist2 == Max2(thumbDist2, Max2(indexDist2, Max2(middleDist2,
                        Max2(ringDist2, pinkyDist2))))
        minDist2 == Min2(thumbDist2, Min2(indexDist2, Min2(middleDist2,
                        Min2(ringDist2, pinkyDist2))))
    IN  IF /\ maxDist2 < 2500
           /\ maxDist2 > 225
           /\ SqrtDiffLess(maxDist2, minDist2, 15)
           /\ indexDist2 > 400 /\ middleDist2 > 400
           /\ ringDist2 > 400 /\ pinkyDist2 > 400
        THEN Res("C", 80) ELSE Miss

RuleM(lm, f) ==
    IF f.index /\ f.middle /\ f.ring /\ ~f.pinky /\ ~f.thumb
    THEN Res("M", 75) ELSE Miss

RuleS(lm, f) ==
    IF OnlyThumb(f) THEN Res("S", 85) ELSE Miss

RuleD(lm, f) ==
    LET indexTip == lm[INDEX_TIP]
        indexMcp == lm[INDEX_MCP]
        indexUp == indexTip.y < indexMcp.y
        indexStraight == Abs(indexTip.x - indexMcp.x) < Abs(indexTip.y - indexMcp.y)
    IN  IF f.index /\ ~f.middle /\ ~f.ring /\ ~f.pinky /\ ~f.thumb
           /\ indexUp /\ indexStraight
        THEN Res("D", 90) ELSE Miss

RuleF(lm, f) ==
    IF f.middle /\ f.ring /\ f.pinky /\ Dist2(lm[THUMB_TIP], lm[INDEX_TIP]) < 225
    THEN Res("F", 80) ELSE Miss

RuleU(lm, f) ==
    LET indexUp == lm[INDEX_TIP].y < lm[INDEX_PIP].y
        middleUp == lm[MIDDLE_TIP].y < lm[MIDDLE_PIP].y
    IN  IF IndexMiddleNoThumb(f) /\ indexUp /\ middleUp
           /\ Dist2(lm[INDEX_TIP], lm[MIDDLE_TIP]) < 36
        THEN Res("U", 85) ELSE Miss

RuleR(lm, f) ==
    LET indexTip == lm[INDEX_TIP]
        middleTip == lm[MIDDLE_TIP]
        indexPip == lm[INDEX_PIP]
        middlePip == lm[MIDDLE_PIP]
        tipDist2 == Dist2(indexTip, middleTip)
        pipDist2 == Dist2(indexPip, middlePip)
        indexUp == indexTip.y < indexPip.y
        middleUp == middleTip.y < middlePip.y
        indexMcp == lm[INDEX_MCP]
        middleMcp == lm[MIDDLE_MCP]
        indexVertical == Abs(indexTip.y - indexMcp.y) > Abs(indexTip.x - indexMcp.x)
        middleVertical == Abs(middleTip.y - middleMcp.y) > Abs(middleTip.x - middleMcp.x)
    IN  IF IndexMiddleNoThumb(f)
           /\ 100 * tipDist2 < 64 * pipDist2
           /\ (~indexUp \/ ~middleUp)
           /\ (indexVertical \/ middleVertical)
        THEN Res("R", 85) ELSE Miss

RuleH(lm, f) ==
    LET indexTip == lm[INDEX_TIP]
        middleTip == lm[MIDDLE_TIP]
        indexMcp == lm[INDEX_MCP]
        middleMcp == lm[MIDDLE_MCP]
        indexHorizontal ==
            10 * Abs(indexTip.x - indexMcp.x) > 12 * Abs(indexTip.y - indexMcp.y)
        middleHorizontal ==
            10 * Abs(middleTip.x - middleMcp.x) > 12 * Abs(middleTip.y - middleMcp.y)
    IN  IF IndexMiddleNoThumb(f) /\ indexHorizontal /\ middleHorizontal
           /\ Dist2(indexTip, middleTip) < 64
        THEN Res("H", 85) ELSE Miss

RuleG(lm, f) ==
    LET horizontal == Abs(lm[INDEX_TIP].x - lm[INDEX_MCP].x)
                        > Abs(lm[INDEX_TIP].y - lm[INDEX_MCP].y)
    IN  IF f.index /\ ~f.middle /\ ~f.ring /\ ~f.pinky /\ f.thumb /\ horizontal
        THEN Res("G", 80) ELSE Miss

RuleI(lm, f) ==
    IF ~f.index /\ ~f.middle /\ ~f.ring /\ f.pinky /\ ~f.thumb
    THEN Res("I", 90) ELSE Miss

RuleJ(lm, f) ==
    IF f.index /\ ~f.middle /\ ~f.ring /\ f.pinky /\ f.thumb
    THEN Res("J", 80) ELSE Miss

RuleL(lm, f) ==
    IF f.thumb /\ f.index /\ ~f.middle /\ ~f.ring /\ ~f.pinky
    THEN Res("L", 90) ELSE Miss

RuleY(lm, f) ==
    IF f.thumb /\ ~f.index /\ ~f.middle /\ ~f.ring /\ f.pinky
    THEN Res("Y", 90) ELSE Miss

RuleP(lm, f) ==
    LET pointingDown == lm[INDEX_TIP].y > lm[INDEX_MCP].y + 5
    IN  IF IndexMiddleThumb(f) /\ pointingDown
        THEN Res("P", 80) ELSE Miss

RuleQ(lm, f) ==
    LET pointingDown == lm[INDEX_TIP].y > lm[INDEX_MCP].y + 5
    IN  IF f.index /\ ~f.middle /\ ~f.ring /\ ~f.pinky /\ f.thumb /\ pointingDown
        THEN Res("Q", 80) ELSE Miss

RuleK(lm, f) ==
    IF IndexMiddleThumb(f) THEN Res("K", 85) ELSE Miss

RuleV(lm, f) ==
    IF IndexMiddleNoThumb(f) /\ Dist2(lm[INDEX_TIP], lm[MIDDLE_TIP]) > 25
    THEN Res("V", 90) ELSE Miss

RuleN(lm, f) ==
    IF IndexMiddleNoThumb(f) THEN Res("N", 75) ELSE Miss

RuleW(lm, f) ==
    IF f.index /\ f.middle /\ f.ring /\ ~f.pinky
    THEN Res("W", 90) ELSE Miss

RuleX(lm, f) ==
    LET tipDist2 == Dist2(lm[INDEX_TIP], lm[WRIST])
        pipDist2 == Dist2(lm[INDEX_PIP], lm[WRIST])
        mcpDist2 == Dist2(lm[INDEX_MCP], lm[WRIST])
    IN  IF ~f.index /\ ~f.middle /\ ~f.ring /\ ~f.pinky /\ ~f.thumb
           /\ tipDist2 < pipDist2 /\ tipDist2 > mcpDist2
        THEN Res("X", 80) ELSE Miss

RuleZ(lm, f) ==
    LET indexTip == lm[INDEX_TIP]
        indexMcp == lm[INDEX_MCP]
        indexUp == indexTip.y < indexMcp.y
        indexDiagonal == 2 * Abs(indexTip.x - indexMcp.x) > Abs(indexTip.y - indexMcp.y)
    IN  IF f.index /\ ~f.middle /\ ~f.ring /\ ~f.pinky /\ ~f.thumb
           /\ indexUp /\ indexDiagonal
        THEN Res("Z", 70) ELSE Miss

\* faulty variant of RuleChain: the first K block also asks for the thumb tip
\* to lie between the index tip and the middle tip
RuleChainFirstKStrict(lm, f) ==
    <<RuleE(lm, f), RuleO(lm, f), RuleT(lm, f), RuleA(lm, f), RuleB(lm, f),
      RuleC(lm, f), RuleM(lm, f), RuleS(lm, f), RuleD(lm, f), RuleF(lm, f),
      RuleU(lm, f), RuleR(lm, f), RuleH(lm, f), RuleG(lm, f), RuleI(lm, f),
      RuleJ(lm, f), RuleL(lm, f), RuleY(lm, f), RuleP(lm, f), RuleQ(lm, f),
      IF /\ RuleK(lm, f) # Miss
         /\ lm[THUMB_TIP].x > Min2(lm[INDEX_TIP].x, lm[MIDDLE_TIP].x)
         /\ lm[THUMB_TIP].x < Max2(lm[INDEX_TIP].x, lm[MIDDLE_TIP].x)
      THEN RuleK(lm, f) ELSE Miss,
      RuleV(lm, f), RuleK(lm, f), RuleV(lm, f), RuleN(lm, f),
      RuleW(lm, f), RuleX(lm, f), RuleZ(lm, f)>>

\* faulty variant of RuleChain: the C block stands after the N block
RuleChainCLate(lm, f) ==
    <<RuleE(lm, f), RuleO(lm, f), RuleT(lm, f), RuleA(lm, f), RuleB(lm, f),
      RuleM(lm, f), RuleS(lm, f), RuleD(lm, f), RuleF(lm, f),
      RuleU(lm, f), RuleR(lm, f), RuleH(lm, f), RuleG(lm, f), RuleI(lm, f),
      RuleJ(lm, f), RuleL(lm, f), RuleY(lm, f), RuleP(lm, f), RuleQ(lm, f),
      RuleK(lm, f), RuleV(lm, f), RuleK(lm, f), RuleV(lm, f), RuleN(lm, f),
      RuleC(lm, f), RuleW(lm, f), RuleX(lm, f), RuleZ(lm, f)>>

\* the rule blocks in source order (K and V appear twice)
RuleChain(lm, f) ==
    <<RuleE(lm, f), RuleO(lm, f), RuleT(lm, f), RuleA(lm, f), RuleB(lm, f),
      RuleC(lm, f), RuleM(lm, f), RuleS(lm, f), RuleD(lm, f), RuleF(lm, f),
      RuleU(lm, f), RuleR(lm, f), RuleH(lm, f), RuleG(lm, f), RuleI(lm, f),
      RuleJ(lm, f), RuleL(lm, f), RuleY(lm, f), RuleP(lm, f), RuleQ(lm, f),
      RuleK(lm, f), RuleV(lm, f), RuleK(lm, f), RuleV(lm, f), RuleN(lm, f),
      RuleW(lm, f), RuleX(lm, f), RuleZ(lm, f)>>

\* the first rule that returns wins; no rule: {letter: null, confidence: 0}
FirstMatch(rs) ==
    LET hits == {i \in 1..Len(rs) : rs[i] # Miss}
    IN  IF hits = {} THEN Res(Null, 0)
        ELSE rs[CHOOSE i \in hits : \A j \in hits : i <= j]

recognizeASL(landmarks) ==
    FirstMatch(RuleChain(landmarks, getFingerStates(landmarks)))

-----------------------------------------------------------------------------
(* Motion frames.  A frame's landmarks are kept as a handle                *)
(* [pose, ox, oy]: the named hand pose PoseTable[pose] (21 points relative *)
(* to the wrist) translated by (ox, oy).  Points(h) is the 21-landmark     *)
(* array the tracker delivers.                                             *)

\* knuckles shared by all poses; fingertips differ (DIP joints sit at the tips)
MkHand(thumbTip, indexTip, middleTip, ringTip, pinkyTip) ==
    <<Pt(0, 0), Pt(-3, -2), Pt(-6, -4), Pt(-8, -6), thumbTip,
      Pt(-3, -10), Pt(-3, -15), indexTip, indexTip,
      Pt(0, -10), Pt(0, -16), middleTip, middleTip,
      Pt(3, -10), Pt(3, -15), ringTip, ringTip,
      Pt(6, -9), Pt(6, -13), pinkyTip, pinkyTip>>

ThumbOut == Pt(-14, -4)
ThumbIn == Pt(-5, -8)
ThumbTucked == Pt(-3, -6)

PoseTable ==
    [fist     |-> MkHand(ThumbTucked, Pt(-3, -12), Pt(0, -12), Pt(3, -12), Pt(6, -11)),
     thumbUp  |-> MkHand(ThumbOut, Pt(-3, -12), Pt(0, -12), Pt(3, -12), Pt(6, -11)),
     open     |-> MkHand(ThumbOut, Pt(-3, -23), Pt(0, -24), Pt(3, -22), Pt(6, -19)),
     four     |-> MkHand(ThumbIn, Pt(-3, -23), Pt(0, -24), Pt(3, -22), Pt(6, -19)),
     three    |-> MkHand(ThumbOut, Pt(-3, -23), Pt(0, -24), Pt(3, -12), Pt(6, -11)),
     w        |-> MkHand(ThumbIn, Pt(-3, -23), Pt(0, -24), Pt(3, -22), Pt(6, -11)),
     point    |-> MkHand(ThumbIn, Pt(-3, -23), Pt(0, -12), Pt(3, -12), Pt(6, -11)),
     diagonal |-> MkHand(ThumbIn, Pt(-16, -20), Pt(0, -12), Pt(3, -12), Pt(6, -11))]

Lm(pose, ox, oy) == [pose |-> pose, ox |-> ox, oy |-> oy]

Points(h) ==
    [i \in 0..20 |-> Pt(PoseTable[h.pose][i + 1].x + h.ox,
                        PoseTable[h.pose][i + 1].y + h.oy)]

\* a threshold c (hundredths) on a centroid coordinate, in centre units
C(c) == 21 * c

RECURSIVE SumX(_, _)
SumX(lm, i) == IF i < 0 THEN 0 ELSE lm[i].x + SumX(lm, i - 1)
RECURSIVE SumY(_, _)
SumY(lm, i) == IF i < 0 THEN 0 ELSE lm[i].y + SumY(lm, i - 1)

\* getHandCenter: the centroid of the landmarks, kept as the coordinate sums
getHandCenter(landmarks) == Pt(SumX(landmarks, 20), SumY(landmarks, 20))

\* frames.slice(-n)
LastN(frames, n) ==
    IF Len(frames) <= n THEN frames
    ELSE SubSeq(frames, Len(frames) - n + 1, Len(frames))

RECURSIVE SeqSumX(_)
SeqSumX(cs) == IF cs = <<>> THEN 0 ELSE Head(cs).x + SeqSumX(Tail(cs))
RECURSIVE SeqSumY(_)
SeqSumY(cs) == IF cs = <<>> THEN 0 ELSE Head(cs).y + SeqSumY(Tail(cs))

Centers(frames) == [i \in 1..Len(frames) |-> frames[i].handCenter]

-----------------------------------------------------------------------------
(* Math.atan2 in microradians: octant reduction, then arctan on [0,1] by   *)
(* linear interpolation in a 32-step table (error below 0.1 mrad).         *)

PI == 3141593

AtanTable ==
    <<0, 31240, 62419, 93477, 124355, 154997, 185348, 215358, 244979, 274167,
      302885, 331096, 358771, 385883, 412410, 438337, 463648, 488334, 512389,
      535811, 558599, 580756, 602287, 623199, 643501, 663203, 682317, 700854,
      718830, 736257, 753151, 769526, 785398>>

\* arctan(a / b) for 0 <= a <= b, b > 0
AtanUnit(a, b) ==
    LET q == (a * 32768) \div b
        k == q \div 1024
        r == q % 1024
    IN  IF k >= 32 THEN AtanTable[33]
        ELSE AtanTable[k + 1] + ((AtanTable[k + 2] - AtanTable[k + 1]) * r) \div 1024

\* arctan(y / x) for x, y >= 0, not both 0
AtanQuadrant(y, x) ==
    IF y <= x THEN AtanUnit(y, x) ELSE PI \div 2 - AtanUnit(x, y)

Atan2(y, x) ==
    IF x = 0 /\ y = 0 THEN 0
    ELSE IF x >= 0 /\ y >= 0 THEN AtanQuadrant(y, x)
    ELSE IF x < 0 /\ y >= 0 THEN PI - AtanQuadrant(y, -x)
    ELSE IF x < 0 THEN AtanQuadrant(-y, -x) - PI
    ELSE -AtanQuadrant(-y, x)

\* while (d > PI) d -= 2 PI; while (d < -PI) d += 2 PI
RECURSIVE NormalizeAngle(_)
NormalizeAngle(d) ==
    IF d > PI THEN NormalizeAngle(d - 2 * PI)
    ELSE IF d < -PI THEN NormalizeAngle(d + 2 * PI)
    ELSE d

Sign(n) == IF n > 0 THEN 1 ELSE IF n < 0 THEN -1 ELSE 0

-----------------------------------------------------------------------------
(* Gesture Motion Detectors.  NoPattern is the detectors' null.            *)

\* chinPosition: a point of the face mesh, or null
Position(px, py) == [isNull |-> FALSE, x |-> px, y |-> py]
NullPosition == [isNull |-> TRUE, x |-> 0, y |-> 0]

NoPattern == [type |-> Null, detected |-> FALSE, confidence |-> 0]
Pattern(t, c) == [type |-> t, detected |-> TRUE, confidence |-> c]

\* the isFlatHand / isFist closures on a frame's landmarks
IsFlatHand(frame) ==
    LET f == getFingerStates(Points(frame.landmarks))
    IN  f.thumb /\ f.index /\ f.middle /\ f.ring /\ f.pinky

IsFist(frame) ==
    LET f == getFingerStates(Points(frame.landmarks))
    IN  f.thumb /\ ~f.index /\ ~f.middle /\ ~f.ring /\ ~f.pinky

detectWaveMotion(frames) ==
    IF Len(frames) < 8 THEN NoPattern
    ELSE
    LET handCenters == Centers(LastN(frames, 8))
        startY == handCenters[1].y
        startX == handCenters[1].x
        endX == handCenters[Len(handCenters)].x
        startedAtForehead == startY < C(40)
        movedForward == endX < startX - C(5)
        movedOutward == Abs(endX - startX) > C(8)
    IN  IF startedAtForehead /\ (movedForward \/ movedOutward)
        THEN Pattern("hello", 80) ELSE NoPattern

detectThankYouMotion(frames, fds) ==
    IF Len(frames) < 6 THEN NoPattern
    ELSE
    LET recentFrames == LastN(frames, 6)
        handCenters == Centers(recentFrames)
        startY == handCenters[1].y
        startX == handCenters[1].x
        endX == handCenters[Len(handCenters)].x
        isFlatHand == IsFlatHand(recentFrames[1])
        startedAtChin == /\ fds.chinDetected
                         /\ ~fds.chinPosition.isNull
                         /\ Abs(startY - C(fds.chinPosition.y)) < C(15)
        movedForward == endX < startX - C(6)
    IN  IF startedAtChin /\ movedForward /\ isFlatHand
        THEN Pattern("thank_you", 90)
        ELSE IF isFlatHand /\ startY >= C(40) /\ startY <= C(70) /\ movedForward
        THEN Pattern("thank_you", 80)
        ELSE NoPattern

\* |angle change| of step i (2..n) of the Please loop: angles about handCenters[0]
PleaseStep(hc, i) ==
    LET prevAngle == Atan2(hc[i - 1].y - hc[1].y, hc[i - 1].x - hc[1].x)
        currAngle == Atan2(hc[i].y - hc[1].y, hc[i].x - hc[1].x)
    IN  Abs(NormalizeAngle(currAngle - prevAngle))

RECURSIVE PleaseTotal(_, _)
PleaseTotal(hc, i) ==
    IF i < 2 THEN 0 ELSE PleaseStep(hc, i) + PleaseTotal(hc, i - 1)

detectPleaseMotion(frames) ==
    IF Len(frames) < 10 THEN NoPattern
    ELSE
    LET recentFrames == LastN(frames, 10)
        handCenters == Centers(recentFrames)
        n == Len(handCenters)
        isFlatHand == IsFlatHand(recentFrames[1])
        startY == handCenters[1].y
        sumY == SeqSumY(handCenters)
        startedAtChest == startY >= C(35) /\ startY <= C(65)
        stayedAtChest == sumY >= n * C(35) /\ sumY <= n * C(65)
        totalAngleChange == PleaseTotal(handCenters, n)
        directionConsistency ==
            Cardinality({i \in 2..n : PleaseStep(handCenters, i) > 100000})
        isCircularMotion == 4 * totalAngleChange > 3 * PI /\ directionConsistency >= 6
    IN  IF isFlatHand /\ startedAtChest /\ stayedAtChest /\ isCircularMotion
        THEN Pattern("please", 85) ELSE NoPattern

detectHelpMotion(frames) ==
    IF Len(frames) < 6 THEN NoPattern
    ELSE
    LET recentFrames == LastN(frames, 6)
        handCenters == Centers(recentFrames)
        startY == handCenters[1].y
        endY == handCenters[Len(handCenters)].y
        movedUp == endY < startY - C(10)
        isFlatHand == IsFlatHand(recentFrames[1])
    IN  IF isFlatHand /\ movedUp THEN Pattern("help", 70) ELSE NoPattern

detectLoveMotion(frames) ==
    IF Len(frames) < 4 THEN NoPattern
    ELSE
    LET handCenters == Centers(LastN(frames, 4))
        n == Len(handCenters)
        sumX == SeqSumX(handCenters)
        sumY == SeqSumY(handCenters)
        atChestLevel == sumY >= n * C(40) /\ sumY <= n * C(70)
        \* |handCenters[i].x - centerX|, times n
        distN(i) == Abs(n * handCenters[i].x - sumX)
        crossingMotion == \E i \in 2..n : distN(i) < distN(i - 1) - n * C(5)
    IN  IF atChestLevel /\ crossingMotion THEN Pattern("love", 70) ELSE NoPattern

\* |angle change| of step i of the Sorry loop: angles about (handCenters[0].x, centerY)
SorryStep(hc, i) ==
    LET n == Len(hc)
        sumY == SeqSumY(hc)
        prevAngle == Atan2(n * hc[i - 1].y - sumY, n * (hc[i - 1].x - hc[1].x))
        currAngle == Atan2(n * hc[i].y - sumY, n * (hc[i].x - hc[1].x))
    IN  Abs(NormalizeAngle(currAngle - prevAngle))

RECURSIVE SorryTotal(_, _)
SorryTotal(hc, i) ==
    IF i < 2 THEN 0 ELSE SorryStep(hc, i) + SorryTotal(hc, i - 1)

detectSorryMotion(frames) ==
    IF Len(frames) < 8 THEN NoPattern
    ELSE
    LET recentFrames == LastN(frames, 8)
        handCenters == Centers(recentFrames)
        n == Len(handCenters)
        isFist == IsFist(recentFrames[1])
        sumY == SeqSumY(handCenters)
        atChestLevel == sumY >= n * C(40) /\ sumY <= n * C(70)
        totalAngleChange == SorryTotal(handCenters, n)
        smallCircularMotion ==
            Cardinality({i \in 2..n : /\ SorryStep(handCenters, i) > 50000
                                      /\ SorryStep(handCenters, i) < 300000})
        isCircularMotion == /\ 3 * totalAngleChange > PI
                            /\ totalAngleChange < PI
                            /\ smallCircularMotion >= 4
    IN  IF isFist /\ atChestLevel /\ isCircularMotion
        THEN Pattern("sorry", 85) ELSE NoPattern

\* the Yes loop from step i on: [changes, total] given prevDirection
RECURSIVE YesLoop(_, _, _)
YesLoop(hc, i, prevDirection) ==
    IF i > Len(hc) THEN [directionChanges |-> 0, totalMovement |-> 0]
    ELSE
    LET direction == hc[i].y - hc[i - 1].y
        rest == YesLoop(hc, i + 1, direction)
        changed == prevDirection # 0 /\ Sign(direction) # Sign(prevDirection)
    IN  [directionChanges |-> rest.directionChanges + B2N(changed),
         totalMovement |-> rest.totalMovement + Abs(direction)]

detectYesMotion(frames) ==
    IF Len(frames) < 10 THEN NoPattern
    ELSE
    LET recentFrames == LastN(frames, 10)
        handCenters == Centers(recentFrames)
        isFist == IsFist(recentFrames[1])
        loop == YesLoop(handCenters, 2, 0)
    IN  IF isFist /\ loop.directionChanges >= 2 /\ loop.totalMovement > C(10)
        THEN Pattern("yes", 80) ELSE NoPattern

\* faulty variant of detectNoMotion: two frames are enough
detectNoMotionAtTwo(frames) ==
    IF Len(frames) < 2 THEN NoPattern
    ELSE
    LET recentFrames == LastN(frames, 3)
        detectedCount ==
            Cardinality({i \in 1..Len(recentFrames) :
                LET f == getFingerStates(Points(recentFrames[i].landmarks))
                IN  f.thumb /\ f.index /\ f.middle /\ ~f.ring /\ ~f.pinky})
    IN  IF detectedCount >= 2 THEN Pattern("no", 80) ELSE NoPattern

detectNoMotion(frames) ==
    IF Len(frames) < 3 THEN NoPattern
    ELSE
    LET recentFrames == LastN(frames, 3)
        detectedCount ==
            Cardinality({i \in 1..Len(recentFrames) :
                LET f == getFingerStates(Points(recentFrames[i].landmarks))
                IN  f.thumb /\ f.index /\ f.middle /\ ~f.ring /\ ~f.pinky})
    IN  IF detectedCount >= 2 THEN Pattern("no", 80) ELSE NoPattern

\* the eight detector calls of one detection cycle
RunDetectors(frames, fds) ==
    [wave     |-> detectWaveMotion(frames),
     thankYou |-> detectThankYouMotion(frames, fds),
     please   |-> detectPleaseMotion(frames),
     help     |-> detectHelpMotion(frames),
     love     |-> detectLoveMotion(frames),
     sorry    |-> detectSorryMotion(frames),
     yes      |-> detectYesMotion(frames),
     no       |-> detectNoMotion(frames)]

-----------------------------------------------------------------------------
(* Gesture arbitration: the if / else-if chain of onResults.               *)

Det(p) == p.type # Null /\ p.detected

\* faulty variant of Branches: the help and love branches exchanged
BranchesLoveBeforeHelp(p) ==
    <<[guard |-> Det(p.wave),     gesture |-> "HELLO",     confidence |-> p.wave.confidence],
      [guard |-> Det(p.thankYou), gesture |-> "THANK YOU", confidence |-> p.thankYou.confidence],
      [guard |-> Det(p.please),   gesture |-> "PLEASE",    confidence |-> p.please.confidence],
      [guard |-> Det(p.love),     gesture |-> "LOVE",      confidence |-> p.love.confidence],
      [guard |-> Det(p.help),     gesture |-> "HELP",      confidence |-> p.help.confidence],
      [guard |-> Det(p.sorry) /\ ~p.please.detected,
                                  gesture |-> "SORRY",     confidence |-> p.sorry.confidence],
      [guard |-> Det(p.yes) /\ ~p.thankYou.detected,
                                  gesture |-> "YES",       confidence |-> p.yes.confidence],
      [guard |-> Det(p.no),       gesture |-> "NO",        confidence |-> p.no.confidence]>>

\* faulty variant of Branches: sorry and yes tested, unguarded, ahead of
\* please and thank_you
BranchesSorryYesFirst(p) ==
    <<[guard |-> Det(p.wave),     gesture |-> "HELLO",     confidence |-> p.wave.confidence],
      [guard |-> Det(p.yes),      gesture |-> "YES",       confidence |-> p.yes.confidence],
      [guard |-> Det(p.thankYou), gesture |-> "THANK YOU", confidence |-> p.thankYou.confidence],
      [guard |-> Det(p.sorry),    gesture |-> "SORRY",     confidence |-> p.sorry.confidence],
      [guard |-> Det(p.please),   gesture |-> "PLEASE",    confidence |-> p.please.confidence],
      [guard |-> Det(p.help),     gesture |-> "HELP",      confidence |-> p.help.confidence],
      [guard |-> Det(p.love),     gesture |-> "LOVE",      confidence |-> p.love.confidence],
      [guard |-> Det(p.no),       gesture |-> "NO",        confidence |-> p.no.confidence]>>

\* faulty variant of Branches: the guarded sorry and yes branches stand ahead
\* of thank_you and please
BranchesGuardedFirst(p) ==
    <<[guard |-> Det(p.wave),     gesture |-> "HELLO",     confidence |-> p.wave.confidence],
      [guard |-> Det(p.sorry) /\ ~p.please.detected,
                                  gesture |-> "SORRY",     confidence |-> p.sorry.confidence],
      [guard |-> Det(p.yes) /\ ~p.thankYou.detected,
                                  gesture |-> "YES",       confidence |-> p.yes.confidence],
      [guard |-> Det(p.thankYou), gesture |-> "THANK YOU", confidence |-> p.thankYou.confidence],
      [guard |-> Det(p.please),   gesture |-> "PLEASE",    confidence |-> p.please.confidence],
      [guard |-> Det(p.help),     gesture |-> "HELP",      confidence |-> p.help.confidence],
      [guard |-> Det(p.love),     gesture |-> "LOVE",      confidence |-> p.love.confidence],
      [guard |-> Det(p.no),       gesture |-> "NO",        confidence |-> p.no.confidence]>>

\* the branches in source order: condition, emitted gesture, confidence
Branches(p) ==
    <<[guard |-> Det(p.wave),     gesture |-> "HELLO",     confidence |-> p.wave.confidence],
      [guard |-> Det(p.thankYou), gesture |-> "THANK YOU", confidence |-> p.thankYou.confidence],
      [guard |-> Det(p.please),   gesture |-> "PLEASE",    confidence |-> p.please.confidence],
      [guard |-> Det(p.help),     gesture |-> "HELP",      confidence |-> p.help.confidence],
      [guard |-> Det(p.love),     gesture |-> "LOVE",      confidence |-> p.love.confidence],
      [guard |-> Det(p.sorry) /\ ~p.please.detected,
                                  gesture |-> "SORRY",     confidence |-> p.sorry.confidence],
      [guard |-> Det(p.yes) /\ ~p.thankYou.detected,
                                  gesture |-> "YES",       confidence |-> p.yes.confidence],
      [guard |-> Det(p.no),       gesture |-> "NO",        confidence |-> p.no.confidence]>>

\* faulty variant of TakenBranches: independent ifs, every true condition runs
TakenBranchesIndependent(bs) == {i \in 1..Len(bs) : bs[i].guard}

\* if / else if: a branch runs iff its condition holds and no earlier one did
TakenBranches(bs) ==
    {i \in 1..Len(bs) : bs[i].guard /\ \A j \in 1..(i - 1) : ~bs[j].guard}

RECURSIVE EmissionsFrom(_, _, _)
EmissionsFrom(bs, taken, i) ==
    IF i > Len(bs) THEN <<>>
    ELSE IF i \in taken
         THEN <<[gesture |-> bs[i].gesture, confidence |-> bs[i].confidence,
                 motionDetected |-> TRUE]>> \o EmissionsFrom(bs, taken, i + 1)
         ELSE EmissionsFrom(bs, taken, i + 1)

\* the setMotionDetectionResult calls of the matching branches, in order
Emissions(p) == EmissionsFrom(Branches(p), TakenBranches(Branches(p)), 1)

NeutralMotion == [gesture |-> Null, confidence |-> 0, motionDetected |-> FALSE]

-----------------------------------------------------------------------------
(* The hook: state after construction, and onResults.                      *)

NoFaceResults == [set |-> FALSE, multiFaceLandmarks |-> <<>>]
FaceResults(faces) == [set |-> TRUE, multiFaceLandmarks |-> faces]

\* the "no hand" value of detectionResult
NoHand == [letter |-> Null, confidence |-> 0, handDetected |-> FALSE]

NoTick ==
    [hasHands |-> FALSE, motionNow |-> 0, now |-> 0,
     cycleRan |-> FALSE, patterns |-> <<>>, emissions |-> <<>>, matched |-> FALSE,
     lastCycle |-> -1, prevCycle |-> -1,
     letter |-> Null, confidence |-> 0, elapsed |-> 0, qualified |-> FALSE,
     historyAfterPush |-> <<>>, committed |-> FALSE, textBefore |-> <<>>,
     handRun |-> 0, lostRun |-> 0, stableBefore |-> FALSE, buffer |-> <<>>,
     resultBefore |-> NoHand]

HookInit ==
    /\ detectionResult = NoHand
    /\ motionDetectionResult = NeutralMotion
    /\ detectedText = <<>>
    /\ detectionHistory = <<>>
    /\ lastDetectionTime = 0
    /\ handDetectedFrames = 0
    /\ handLostFrames = 0
    /\ isHandStable = FALSE
    /\ motionFrames = <<>>
    /\ lastMotionTime = 0
    /\ faceResults = NoFaceResults
    /\ faceDetectionState = [chinDetected |-> FALSE, chinPosition |-> Position(0, 0)]
    /\ frameNo = 0
    /\ appended = <<>>
    /\ tick = NoTick

\* the runtime with nothing in flight.  calls: the async calls suspended at an
\* await, oldest first; raf: the pending requestAnimationFrame requests;
\* closed: the Hands instances close() was called on, of the instances made
\* so far; the rest are counters
\* and stopped, which records that a stop() has completed with no initialize()
\* in flight or called since.
IdleRuntime ==
    [calls |-> <<>>, raf |-> {}, closed |-> {}, instances |-> 0, nextCall |-> 1,
     nextRaf |-> 1, inits |-> 0, stops |-> 0, fired |-> 0, stopped |-> FALSE]

\* the camera lifecycle after construction: nothing initialized
Constructed ==
    /\ isInitialized = FALSE
    /\ handsRef = 0
    /\ faceMeshRef = FALSE
    /\ streamRef = FALSE
    /\ animationFrameRef = 0
    /\ runtime = IdleRuntime

\* the camera lifecycle after one initialize() has completed: the first Hands
\* instance is open and the frame loop has its request pending
Running ==
    /\ isInitialized = TRUE
    /\ handsRef = 1
    /\ faceMeshRef = TRUE
    /\ streamRef = TRUE
    /\ animationFrameRef = 1
    /\ runtime = [IdleRuntime EXCEPT !.raf = {1}, !.nextRaf = 2, !.inits = 1,
                                     !.instances = 1]

\* the detectors are not called outside a cycle
NoPatterns ==
    [wave |-> NoPattern, thankYou |-> NoPattern, please |-> NoPattern,
     help |-> NoPattern, love |-> NoPattern, sorry |-> NoPattern,
     yes |-> NoPattern, no |-> NoPattern]

BufferCapacity == 20

\* faulty variant of PushFrame: no eviction
PushFrameNoEviction(frames, frame) == Append(frames, frame)

\* faulty variant of PushFrame: the newest frame is dropped instead of the oldest
PushFrameDropNewest(frames, frame) ==
    LET pushed == Append(frames, frame)
    IN  IF Len(pushed) > BufferCapacity THEN SubSeq(pushed, 1, BufferCapacity)
        ELSE pushed

\* motionFramesRef.current.push(motionFrame); if (length > 20) shift()
PushFrame(frames, frame) ==
    LET pushed == Append(frames, frame)
    IN  IF Len(pushed) > BufferCapacity THEN Tail(pushed) ELSE pushed

\* detectionHistoryRef.current.push(letter); if (length > 4) shift()
PushHistory(history, letter) ==
    LET pushed == Append(history, letter)
    IN  IF Len(pushed) > 4 THEN Tail(pushed) ELSE pushed

\* detectionHistory.slice(-2).every(d => d === letter)
IsStable(history, letter) ==
    LET recentDetections == LastN(history, 2)
    IN  \A i \in 1..Len(recentDetections) : recentDetections[i] = letter

\* faulty variant of Qualifies: the window closes at exactly 1200 ms
QualifiesAt1200(letter, confidence, elapsed) ==
    letter # Null /\ confidence > 70 /\ elapsed >= 1200

\* faulty variant of Qualifies: a confidence of exactly 0.7 is enough
QualifiesFrom70(letter, confidence, elapsed) ==
    letter # Null /\ confidence >= 70 /\ elapsed > 1200

\* letter && confidence > 0.7 && now - lastDetectionTimeRef.current > 1200
Qualifies(letter, confidence, elapsed) ==
    letter # Null /\ confidence > 70 /\ elapsed > 1200

\* motionNow - lastMotionTimeRef.current > 2000
CycleDue(motionNow, lastMotion) == motionNow - lastMotion > 2000

\* faulty variant of CommitText: always appends
CommitTextAlways(prev, letter) == Append(prev, letter)

\* prev.endsWith(letter) ? prev : prev + letter
CommitText(prev, letter) ==
    IF Len(prev) > 0 /\ prev[Len(prev)] = letter THEN prev ELSE Append(prev, letter)

\* faulty variant of FramesAfterCycle: every cycle empties the buffer
FramesAfterCycleCleared(buffer, matched) == <<>>

\* faulty variant of FramesAfterCycle: the buffer survives a match
FramesAfterCycleKept(buffer, matched) == buffer

\* motionFramesRef.current = [] in every matching branch
FramesAfterCycle(buffer, matched) == IF matched THEN <<>> ELSE buffer

\* the face-cue update of the hand branch
FaceCue(m, fr) ==
    IF m = "motion" /\ fr.set /\ Len(fr.multiFaceLandmarks) > 0
    THEN [chinDetected |-> TRUE,
          chinPosition |-> Position(fr.multiFaceLandmarks[1].chin.x,
                                    fr.multiFaceLandmarks[1].chin.y)]
    ELSE [chinDetected |-> FALSE, chinPosition |-> NullPosition]

\* faulty variant of ResultWithoutHand: the last result is always kept
ResultWithoutHandKept(stable, previous) == previous

\* else if (!isHandStableRef.current) setDetectionResult(no hand)
ResultWithoutHand(stable, previous) == IF ~stable THEN NoHand ELSE previous

\* faulty variant of StableAfter: the hand is lost after 4 frames without one
StableAfterLost4(detected, lost, stable) ==
    IF lost >= 4 THEN FALSE ELSE IF detected >= 3 THEN TRUE ELSE stable

\* if (detected >= 3) stable = true; if (lost >= 5) stable = false
StableAfter(detected, lost, stable) ==
    IF lost >= 5 THEN FALSE ELSE IF detected >= 3 THEN TRUE ELSE stable

\* The eight detector calls of a cycle.  given.computed: the detectors are run
\* on the buffer; otherwise their return values are the ones supplied.
Computed == [computed |-> TRUE, patterns |-> NoPatterns]
Given(patterns) == [computed |-> FALSE, patterns |-> patterns]
Detect(given, frames, fds) ==
    IF given.computed THEN RunDetectors(frames, fds) ELSE given.patterns

\* onResults for a result with a hand (lmk) or without (hasHands = FALSE),
\* delivered dt ms after the previous clock reading; lag is the time between
\* the two Date.now() calls of the handler.
OnResults(hasHands, lmk, dt, lag, given) ==
    LET detected1 == IF hasHands THEN handDetectedFrames + 1 ELSE 0
        lost1 == IF hasHands THEN 0 ELSE handLostFrames + 1
        stable2 == StableAfter(detected1, lost1, isHandStable)
    IN
    /\ isHandStable' = stable2
    /\ handLostFrames' = lost1
    /\ frameNo' = frameNo + 1
    /\ UNCHANGED <<mode, env>>
    /\ IF hasHands
       THEN
         \E landmarks \in {Points(lmk)} :
         \E r \in {recognizeASL(landmarks)} :
         \E motionNow \in {clock + dt} :
         \E motionFrame \in {[timestamp |-> motionNow,
                              handCenter |-> getHandCenter(landmarks),
                              handShape |-> IF r.letter # Null THEN r.letter
                                            ELSE "unknown",
                              landmarks |-> lmk]} :
         \E fds \in {FaceCue(mode, faceResults)} :
         \E buffer \in {PushFrame(motionFrames, motionFrame)} :
         \E cycle \in {CycleDue(motionNow, lastMotionTime)} :
         \E patterns \in {IF cycle THEN Detect(given, buffer, fds) ELSE NoPatterns} :
         \E emissions \in {IF cycle THEN Emissions(patterns) ELSE <<>>} :
         \E now \in {motionNow + lag} :
         \E qualified \in {Qualifies(r.letter, r.confidence, now - lastDetectionTime)} :
         \E history \in {IF qualified THEN PushHistory(detectionHistory, r.letter)
                         ELSE detectionHistory} :
         \E commit \in {qualified /\ IsStable(history, r.letter)} :
         LET matched == emissions # <<>>
         IN
         /\ handDetectedFrames' = detected1 + 1
         /\ faceDetectionState' = fds
         /\ motionFrames' = FramesAfterCycle(buffer, matched)
         /\ lastMotionTime' = IF matched THEN motionNow ELSE lastMotionTime
         /\ motionDetectionResult' =
                IF ~cycle THEN motionDetectionResult
                ELSE IF matched THEN emissions[Len(emissions)]
                ELSE NeutralMotion
         /\ detectionResult' = [letter |-> r.letter, confidence |-> r.confidence,
                                handDetected |-> TRUE]
         /\ detectedText' = IF commit THEN CommitText(detectedText, r.letter)
                            ELSE detectedText
         /\ lastDetectionTime' = IF commit THEN now ELSE lastDetectionTime
         /\ detectionHistory' = IF commit THEN <<>> ELSE history
         /\ clock' = now
         /\ appended' = IF matched THEN <<>> ELSE Append(appended, motionFrame)
         /\ tick' = [hasHands |-> TRUE, motionNow |-> motionNow, now |-> now,
                     cycleRan |-> cycle,
                     patterns |-> IF cycle THEN <<patterns>> ELSE <<>>,
                     emissions |-> emissions, matched |-> matched,
                     lastCycle |-> IF cycle THEN motionNow ELSE tick.lastCycle,
                     prevCycle |-> tick.lastCycle,
                     letter |-> r.letter, confidence |-> r.confidence,
                     elapsed |-> now - lastDetectionTime, qualified |-> qualified,
                     historyAfterPush |-> IF qualified THEN history ELSE <<>>,
                     committed |-> commit, textBefore |-> detectedText,
                     handRun |-> tick.handRun + 1, lostRun |-> 0,
                     stableBefore |-> isHandStable, buffer |-> buffer,
                     resultBefore |-> detectionResult]
       ELSE
         /\ handDetectedFrames' = detected1
         /\ detectionResult' = ResultWithoutHand(stable2, detectionResult)
         /\ clock' = clock + dt
         /\ tick' = [NoTick EXCEPT !.lastCycle = tick.lastCycle,
                                   !.prevCycle = tick.lastCycle,
                                   !.textBefore = detectedText,
                                   !.lostRun = tick.lostRun + 1,
                                   !.stableBefore = isHandStable,
                                   !.resultBefore = detectionResult]
         /\ UNCHANGED <<motionDetectionResult, detectedText, detectionHistory,
                        lastDetectionTime, motionFrames, lastMotionTime,
                        faceDetectionState, appended>>

\* faceMesh.onResults callback
OnFaceResults(results) == faceResults' = results

\* one iteration of processFrame, run without interruption while the camera
\* is running: hands.send (onResults), then in motion mode faceMesh.send (the
\* face callback); the next frame request takes the place of the one that fired
ProcessFrame(hasHands, lmk, face, dt, lag, given) ==
    /\ handsRef # 0
    /\ OnResults(hasHands, lmk, dt, lag, given)
    /\ IF mode = "motion" /\ faceMeshRef THEN OnFaceResults(face)
       ELSE UNCHANGED faceResults
    /\ UNCHANGED lifeVars

-----------------------------------------------------------------------------
(* The camera lifecycle: initialize, stop and the processFrame loop.  An   *)
(* async function runs without interruption up to its next await; the rest *)
(* of it is a call in runtime.calls that resumes when the awaited promise  *)
(* settles.  One action is one such uninterrupted stretch.                 *)

Call(id, fn, pc, arg) == [id |-> id, fn |-> fn, pc |-> pc, arg |-> arg]

RemoveCall(calls, i) == SubSeq(calls, 1, i - 1) \o SubSeq(calls, i + 1, Len(calls))

InFlight(rt, fn) == {i \in 1..Len(rt.calls) : rt.calls[i].fn = fn}

\* the recognition state stop() leaves alone (all of it but detectionResult)
keptByStop == <<mode, clock, motionDetectionResult, detectedText, detectionHistory,
                lastDetectionTime, handDetectedFrames, handLostFrames, isHandStable,
                motionFrames, lastMotionTime, faceResults, faceDetectionState, env,
                frameNo, appended, tick>>

\* the runtime after stop() has run up to "await handsRef.current.close()":
\* the pending frame request is cancelled, close() is called on the instance
\* and the rest of stop() waits as a new call
StopUntilClose(rt) ==
    [rt EXCEPT !.raf = @ \ {animationFrameRef},
               !.closed = @ \cup {handsRef},
               !.calls = Append(@, Call(rt.nextCall, "stop", "close", 0)),
               !.nextCall = @ + 1]

\* a call of stop(): up to the await of close(), or, with no Hands instance,
\* to its end
stop ==
    LET rt == [runtime EXCEPT !.stops = @ + 1]
    IN  /\ animationFrameRef' = 0
        /\ streamRef' = FALSE
        /\ IF handsRef # 0
           THEN /\ runtime' = StopUntilClose(rt)
                /\ UNCHANGED <<isInitialized, detectionResult>>
           ELSE /\ runtime' = [rt EXCEPT !.raf = @ \ {animationFrameRef},
                                         !.stopped = InFlight(rt, "initialize") = {}]
                /\ isInitialized' = FALSE
                /\ detectionResult' = NoHand
        /\ UNCHANGED <<handsRef, faceMeshRef>>
        /\ UNCHANGED keptByStop

\* stop() after close() has settled: call i of runtime.calls resumes
StopAfterClose(i) ==
    /\ runtime.calls[i].fn = "stop"
    /\ handsRef' = 0
    /\ isInitialized' = FALSE
    /\ detectionResult' = NoHand
    /\ runtime' = [runtime EXCEPT
                      !.calls = RemoveCall(@, i),
                      !.stopped = InFlight(runtime, "initialize") = {}]
    /\ UNCHANGED <<faceMeshRef, streamRef, animationFrameRef>>
    /\ UNCHANGED keptByStop

\* a call of initialize(): with a Hands instance it calls stop() and waits for
\* it, otherwise it goes on to request the camera stream
initialize ==
    LET rt == [runtime EXCEPT !.inits = @ + 1, !.stopped = FALSE]
    IN  IF handsRef # 0
        THEN LET closing == StopUntilClose(rt)
             IN  /\ animationFrameRef' = 0
                 /\ streamRef' = FALSE
                 /\ runtime' = [closing EXCEPT
                        !.calls = Append(@, Call(closing.nextCall, "initialize",
                                                 "stop", rt.nextCall)),
                        !.nextCall = @ + 1]
                 /\ UNCHANGED <<isInitialized, handsRef, faceMeshRef>>
                 /\ UNCHANGED hookVars
        ELSE /\ runtime' = [rt EXCEPT
                    !.calls = Append(@, Call(rt.nextCall, "initialize", "media", 0)),
                    !.nextCall = @ + 1]
             /\ UNCHANGED <<isInitialized, handsRef, faceMeshRef, streamRef,
                            animationFrameRef>>
             /\ UNCHANGED hookVars

\* initialize() after its stop() has returned: getUserMedia is requested
InitializeAfterStop(i) ==
    /\ runtime.calls[i].fn = "initialize"
    /\ runtime.calls[i].pc = "stop"
    /\ \A j \in 1..Len(runtime.calls) : runtime.calls[j].id # runtime.calls[i].arg
    /\ runtime' = [runtime EXCEPT !.calls[i].pc = "media"]
    /\ UNCHANGED <<isInitialized, handsRef, faceMeshRef, streamRef, animationFrameRef>>
    /\ UNCHANGED hookVars

\* initialize() after getUserMedia has settled: with a stream, it is attached
\* to the video and the call waits for the video to play; without one (the
\* promise rejected) the catch block ends the call
InitializeAfterMedia(i, granted) ==
    /\ runtime.calls[i].fn = "initialize"
    /\ runtime.calls[i].pc = "media"
    /\ IF granted
       THEN /\ streamRef' = TRUE
            /\ runtime' = [runtime EXCEPT !.calls[i].pc = "video"]
       ELSE /\ runtime' = [runtime EXCEPT !.calls = RemoveCall(@, i)]
            /\ UNCHANGED streamRef
    /\ UNCHANGED <<isInitialized, handsRef, faceMeshRef, animationFrameRef>>
    /\ UNCHANGED hookVars

\* initialize() after the video plays: a new Hands instance and the face mesh
\* are set up and the first frame is requested
InitializeAfterVideo(i) ==
    /\ runtime.calls[i].fn = "initialize"
    /\ runtime.calls[i].pc = "video"
    /\ handsRef' = runtime.instances + 1
    /\ faceMeshRef' = TRUE
    /\ animationFrameRef' = runtime.nextRaf
    /\ isInitialized' = TRUE
    /\ runtime' = [runtime EXCEPT !.calls = RemoveCall(@, i),
                                  !.instances = @ + 1,
                                  !.raf = @ \cup {runtime.nextRaf},
                                  !.nextRaf = @ + 1]
    /\ UNCHANGED streamRef
    /\ UNCHANGED hookVars

\* animationFrameRef.current = requestAnimationFrame(processFrame), and the
\* end of the processFrame call i
RequestNextFrame(rt, i) ==
    /\ animationFrameRef' = rt.nextRaf
    /\ runtime' = [rt EXCEPT !.calls = RemoveCall(@, i),
                             !.raf = @ \cup {rt.nextRaf},
                             !.nextRaf = @ + 1]

\* the frame request id fires: processFrame runs up to "await hands.send",
\* or returns at once when there is no Hands instance
processFrame(id) ==
    /\ id \in runtime.raf
    /\ runtime' =
           LET rt == [runtime EXCEPT !.raf = @ \ {id}, !.fired = @ + 1]
           IN  IF handsRef = 0 THEN rt
               ELSE [rt EXCEPT
                        !.calls = Append(@, Call(rt.nextCall, "processFrame",
                                                 "hands", handsRef)),
                        !.nextCall = @ + 1]
    /\ UNCHANGED <<isInitialized, handsRef, faceMeshRef, streamRef, animationFrameRef>>
    /\ UNCHANGED hookVars

\* processFrame after hands.send has settled.  An open instance has called
\* onResults with the frame's result.  An instance that close() was called
\* on delivers nothing, and its send either resolves or rejects (rejected:
\* the catch block skips the face mesh).
ProcessFrameAfterHands(i, hasHands, lmk, dt, rejected) ==
    LET call == runtime.calls[i]
        open == call.arg \notin runtime.closed
    IN  /\ call.fn = "processFrame"
        /\ call.pc = "hands"
        /\ rejected => ~open
        /\ IF open THEN OnResults(hasHands, lmk, dt, 0, Computed)
           ELSE UNCHANGED <<mode, clock, detectionResult, motionDetectionResult,
                            detectedText, detectionHistory, lastDetectionTime,
                            handDetectedFrames, handLostFrames, isHandStable,
                            motionFrames, lastMotionTime, faceDetectionState, env,
                            frameNo, appended, tick>>
        /\ IF ~rejected /\ mode = "motion" /\ faceMeshRef
           THEN /\ runtime' = [runtime EXCEPT !.calls[i].pc = "face"]
                /\ UNCHANGED animationFrameRef
           ELSE RequestNextFrame(runtime, i)
        /\ UNCHANGED <<isInitialized, handsRef, faceMeshRef, streamRef, faceResults>>

\* processFrame after faceMesh.send has settled: the face callback has run,
\* the next frame is requested
ProcessFrameAfterFace(i, face) ==
    /\ runtime.calls[i].fn = "processFrame"
    /\ runtime.calls[i].pc = "face"
    /\ OnFaceResults(face)
    /\ RequestNextFrame(runtime, i)
    /\ UNCHANGED <<isInitialized, handsRef, faceMeshRef, streamRef>>
    /\ UNCHANGED <<mode, clock, detectionResult, motionDetectionResult,
                   detectedText, detectionHistory, lastDetectionTime,
                   handDetectedFrames, handLostFrames, isHandStable,
                   motionFrames, lastMotionTime, faceDetectionState, env,
                   frameNo, appended, tick>>

\* faulty variant of backspace: the character before the last is removed
backspaceInner ==
    detectedText' = IF Len(detectedText) < 2 THEN <<>>
                    ELSE SubSeq(detectedText, 1, Len(detectedText) - 2)
                         \o <<detectedText[Len(detectedText)]>>

\* clearText, addSpace, backspace
clearText ==
    /\ detectedText' = <<>>
    /\ detectionHistory' = <<>>

addSpace == detectedText' = Append(detectedText, " ")

\* prev.slice(0, -1)
backspace ==
    detectedText' = IF detectedText = <<>> THEN <<>>
                    ELSE SubSeq(detectedText, 1, Len(detectedText) - 1)

-----------------------------------------------------------------------------
(* Environment 1 (Spec): a live camera.  Any of a few hand poses, or no    *)
(* hand, on every frame; frames arrive 400 or 1300 ms apart.               *)

StartTime == 10000
MaxFrames == 4

LivePoses == {"thumbUp", "three", "diagonal"}
FrameGaps == {400, 1300}
NoFace == FaceResults(<<>>)

Init ==
    /\ HookInit
    /\ Running
    /\ mode \in {"static", "motion"}
    /\ clock = StartTime
    /\ env = [kind |-> "live"]

HandFrame ==
    /\ frameNo < MaxFrames
    /\ \E pose \in LivePoses, dt \in FrameGaps :
         ProcessFrame(TRUE, Lm(pose, 50, 70), NoFace, dt, 0, Computed)

NoHandFrame ==
    /\ frameNo < MaxFrames
    /\ \E dt \in FrameGaps :
         ProcessFrame(FALSE, Lm("fist", 0, 0), NoFace, dt, 0, Computed)

Next == HandFrame \/ NoHandFrame

Spec == Init /\ [][Next]_vars

-----------------------------------------------------------------------------
(* Environment 2 (SpecRun): a scripted scene.  One hand pose is held and   *)
(* moved along a path (wrist positions, repeated cyclically), frames       *)
(* arrive every dt ms, every gap-th frame has no hand (gap 0: never), and  *)
(* a face is or is not in view.                                            *)

MaxRunFrames == 26

Paths ==
    [still     |-> <<Pt(50, 70)>>,
     leftHigh  |-> <<Pt(70, 45), Pt(69, 45), Pt(68, 45), Pt(67, 45), Pt(66, 45), Pt(65, 45), Pt(64, 45), Pt(63, 45), Pt(62, 45), Pt(61, 45), Pt(60, 45), Pt(59, 45), Pt(58, 45)>>,
     leftChest |-> <<Pt(70, 70), Pt(68, 70), Pt(66, 70), Pt(64, 70), Pt(62, 70), Pt(60, 70), Pt(58, 70), Pt(56, 70), Pt(54, 70), Pt(52, 70), Pt(50, 70), Pt(48, 70), Pt(46, 70)>>,
     up        |-> <<Pt(50, 90), Pt(50, 87), Pt(50, 84), Pt(50, 81), Pt(50, 78), Pt(50, 75), Pt(50, 72), Pt(50, 69), Pt(50, 66), Pt(50, 63), Pt(50, 60), Pt(50, 57), Pt(50, 54)>>,
     leftLow   |-> <<Pt(70, 80), Pt(68, 80), Pt(66, 80), Pt(64, 80), Pt(62, 80), Pt(60, 80), Pt(58, 80), Pt(56, 80), Pt(54, 80), Pt(52, 80), Pt(50, 80), Pt(48, 80), Pt(46, 80)>>,
     stepDown  |-> <<Pt(50, 60), Pt(50, 63), Pt(50, 63), Pt(50, 66), Pt(50, 66), Pt(50, 69), Pt(50, 69), Pt(50, 72), Pt(50, 72), Pt(50, 75)>>,
     cross     |-> <<Pt(70, 70), Pt(64, 70), Pt(58, 70), Pt(52, 70), Pt(46, 70), Pt(40, 70), Pt(34, 70), Pt(28, 70)>>,
     nod       |-> <<Pt(50, 70), Pt(50, 73)>>,
     circle    |-> <<Pt(55, 70), Pt(54, 73), Pt(52, 75), Pt(48, 75), Pt(46, 73), Pt(45, 70), Pt(46, 67), Pt(48, 65), Pt(52, 65), Pt(54, 67)>>,
     arc       |-> <<Pt(50, 70), Pt(56, 67), Pt(56, 68), Pt(56, 69), Pt(56, 70), Pt(56, 71), Pt(56, 72), Pt(56, 73)>>,
     weaveHigh |-> <<Pt(70, 55), Pt(70, 51), Pt(70, 48), Pt(68, 51), Pt(66, 58), Pt(64, 55), Pt(62, 58), Pt(60, 55), Pt(58, 58), Pt(56, 55)>>,
     weaveLow  |-> <<Pt(70, 55), Pt(70, 51), Pt(70, 50), Pt(68, 51), Pt(66, 58), Pt(64, 55), Pt(62, 58), Pt(60, 55), Pt(58, 58), Pt(56, 55)>>,
     rub       |-> <<Pt(53, 58), Pt(54, 66), Pt(54, 63), Pt(52, 62), Pt(50, 59), Pt(50, 67), Pt(51, 72), Pt(53, 74), Pt(52, 81), Pt(51, 82)>>]

\* "mixed": the thumb-up fist for four frames, then the open hand for six;
\* "flash": the open hand, closed to the thumb-up fist on every tenth frame
RunPoses == {"thumbUp", "open", "three", "four", "mixed", "flash"}
RunGaps == {100, 700}
Scripts ==
    [pose : RunPoses, path : DOMAIN Paths, dt : RunGaps, gap : {0, 4},
     face : {"none", "chin"}, mode : {"static", "motion"}]

ChinFace == FaceResults(<<[chin |-> Pt(50, 45)]>>)

\* the i-th frame (from 0) of script e
ScriptHasHands(e, i) == e.gap = 0 \/ (i + 1) % (IF e.gap = 0 THEN 1 ELSE e.gap) # 0
ScriptLandmarks(e, i) ==
    LET path == Paths[e.path]
        at == path[(i % Len(path)) + 1]
        pose == IF e.pose = "mixed"
                THEN IF i % 10 < 4 THEN "thumbUp" ELSE "open"
                ELSE IF e.pose = "flash"
                THEN IF i % 10 = 2 THEN "thumbUp" ELSE "open"
                ELSE e.pose
    IN  Lm(pose, at.x, at.y)
ScriptFace(e) == IF e.face = "chin" THEN ChinFace ELSE NoFace

InitRun ==
    /\ HookInit
    /\ Running
    /\ env \in Scripts
    /\ mode = env.mode
    /\ clock = StartTime

ScriptHandFrame ==
    /\ frameNo < MaxRunFrames
    /\ ScriptHasHands(env, frameNo)
    /\ ProcessFrame(TRUE, ScriptLandmarks(env, frameNo), ScriptFace(env),
                    env.dt, 0, Computed)

ScriptNoHandFrame ==
    /\ frameNo < MaxRunFrames
    /\ ~ScriptHasHands(env, frameNo)
    /\ ProcessFrame(FALSE, ScriptLandmarks(env, frameNo), ScriptFace(env),
                    env.dt, 0, Computed)

NextRun == ScriptHandFrame \/ ScriptNoHandFrame

SpecRun == InitRun /\ [][NextRun]_vars

-----------------------------------------------------------------------------
(* Environment 3 (SpecArb): the detectors' outcomes are taken as given.    *)
(* Each detector returns null or its own pattern; every combination is     *)
(* fed to the arbitration chain of onResults.                              *)

MaxArbFrames == 1

DetectorOutcomes ==
    [wave     : {NoPattern, Pattern("hello", 80)},
     thankYou : {NoPattern, Pattern("thank_you", 90), Pattern("thank_you", 80)},
     please   : {NoPattern, Pattern("please", 85)},
     help     : {NoPattern, Pattern("help", 70)},
     love     : {NoPattern, Pattern("love", 70)},
     sorry    : {NoPattern, Pattern("sorry", 85)},
     yes      : {NoPattern, Pattern("yes", 80)},
     no       : {NoPattern, Pattern("no", 80)}]

InitArb ==
    /\ HookInit
    /\ Running
    /\ mode = "motion"
    /\ clock = StartTime
    /\ env = [kind |-> "outcomes"]

ArbFrame ==
    /\ frameNo < MaxArbFrames
    /\ \E outcomes \in DetectorOutcomes :
         ProcessFrame(TRUE, Lm("fist", 50, 70), NoFace, 2500, 0, Given(outcomes))

NextArb == ArbFrame

SpecArb == InitArb /\ [][NextArb]_vars

-----------------------------------------------------------------------------
(* Environment 4 (SpecPresence): a hand that comes and goes.  Every frame  *)
(* either shows the thumb-up fist or no hand; frames arrive 400 ms apart.  *)

MaxPresenceFrames == 9

InitPresence ==
    /\ HookInit
    /\ Running
    /\ mode \in {"static", "motion"}
    /\ clock = StartTime
    /\ env = [kind |-> "presence"]

HandShown ==
    /\ frameNo < MaxPresenceFrames
    /\ ProcessFrame(TRUE, Lm("thumbUp", 50, 70), NoFace, 400, 0, Computed)

HandHidden ==
    /\ frameNo < MaxPresenceFrames
    /\ ProcessFrame(FALSE, Lm("fist", 0, 0), NoFace, 400, 0, Computed)

NextPresence == HandShown \/ HandHidden

SpecPresence == InitPresence /\ [][NextPresence]_vars

-----------------------------------------------------------------------------
(* Environment 5 (SpecFace): motion mode, a face that comes and goes.      *)
(* Every frame shows the open hand or no hand, and a face or no face.      *)

MaxFaceFrames == 5

InitFace ==
    /\ HookInit
    /\ Running
    /\ mode = "motion"
    /\ clock = StartTime
    /\ env = [kind |-> "face"]

FaceHandFrame ==
    /\ frameNo < MaxFaceFrames
    /\ \E face \in {NoFace, ChinFace} :
         ProcessFrame(TRUE, Lm("open", 50, 70), face, 400, 0, Computed)

FaceNoHandFrame ==
    /\ frameNo < MaxFaceFrames
    /\ \E face \in {NoFace, ChinFace} :
         ProcessFrame(FALSE, Lm("fist", 0, 0), face, 400, 0, Computed)

NextFace == FaceHandFrame \/ FaceNoHandFrame

SpecFace == InitFace /\ [][NextFace]_vars

-----------------------------------------------------------------------------
(* Environment 6 (SpecASL): the classifier alone.  A family of hands, all  *)
(* with the joints of MkHand and each fingertip at one of a few places, is *)
(* classified one hand after the other; env.seen collects the letters      *)
(* returned so far, and env.onlyThumb the squared thumb-tip to index-tip   *)
(* distance and the letter of every hand with only the thumb extended.     *)

ThumbTips  == <<ThumbTucked, ThumbIn, ThumbOut, Pt(-5, -13), Pt(12, 5), Pt(-5, -25)>>
IndexTips  == <<Pt(-3, -12), Pt(-3, -23), Pt(9, -9), Pt(-25, -12), Pt(-3, 18),
                Pt(-16, -20), Pt(-18, 3), Pt(-2, -4)>>
MiddleTips == <<Pt(0, -12), Pt(0, -24), Pt(5, -24), Pt(-2, 18), Pt(-25, -9), Pt(-21, 3)>>
RingTips   == <<Pt(3, -12), Pt(3, -22)>>
PinkyTips  == <<Pt(6, -11), Pt(6, -19), Pt(6, -20)>>

NumHands ==
    Len(ThumbTips) * Len(IndexTips) * Len(MiddleTips) * Len(RingTips) * Len(PinkyTips)

\* the i-th hand of the family (from 0), as the 21 landmarks
HandAt(i) ==
    LET t == i % Len(ThumbTips)
        i1 == i \div Len(ThumbTips)
        x == i1 % Len(IndexTips)
        i2 == i1 \div Len(IndexTips)
        m == i2 % Len(MiddleTips)
        i3 == i2 \div Len(MiddleTips)
        r == i3 % Len(RingTips)
        p == (i3 \div Len(RingTips)) % Len(PinkyTips)
        hand == MkHand(ThumbTips[t + 1], IndexTips[x + 1], MiddleTips[m + 1],
                       RingTips[r + 1], PinkyTips[p + 1])
    IN  [k \in 0..20 |-> hand[k + 1]]

InitASL ==
    /\ HookInit
    /\ Running
    /\ mode = "static"
    /\ clock = StartTime
    /\ env = [kind |-> "classify", seen |-> {}, onlyThumb |-> {}]

Classify ==
    /\ frameNo < NumHands
    /\ \E r \in {recognizeASL(HandAt(frameNo))} :
         /\ detectionResult' = [letter |-> r.letter, confidence |-> r.confidence,
                                handDetected |-> TRUE]
         /\ env' = [env EXCEPT
                       !.seen = @ \cup {r.letter},
                       !.onlyThumb =
                           IF OnlyThumb(getFingerStates(HandAt(frameNo)))
                           THEN @ \cup {[dist2 |-> Dist2(HandAt(frameNo)[THUMB_TIP],
                                                         HandAt(frameNo)[INDEX_TIP]),
                                         letter |-> r.letter]}
                           ELSE @]
    /\ frameNo' = frameNo + 1
    /\ UNCHANGED <<mode, clock, motionDetectionResult, detectedText, detectionHistory,
                   lastDetectionTime, handDetectedFrames, handLostFrames,
                   isHandStable, motionFrames, lastMotionTime, faceResults,
                   faceDetectionState, appended, tick>>
    /\ UNCHANGED lifeVars

NextASL == Classify

SpecASL == InitASL /\ [][NextASL]_vars

-----------------------------------------------------------------------------
(* Environment 7 (SpecWide): the classifier on a hand held close to the    *)
(* camera.  The joints lie further from the wrist than those of MkHand, so *)
(* that a curled finger can still end more than 0.2 from the wrist; each   *)
(* fingertip is at one of a few places.  env.seen collects the letters     *)
(* returned so far.                                                        *)

WideHand(thumbTip, indexTip, middleTip, ringTip, pinkyTip) ==
    <<Pt(0, 0), Pt(-4, -3), Pt(-8, -6), Pt(-11, -9), thumbTip,
      Pt(-5, -16), Pt(-5, -24), indexTip, indexTip,
      Pt(0, -16), Pt(0, -25), middleTip, middleTip,
      Pt(5, -16), Pt(5, -24), ringTip, ringTip,
      Pt(9, -14), Pt(9, -21), pinkyTip, pinkyTip>>

WideThumbTips  == <<Pt(-14, -12), Pt(-20, -12), Pt(-6, -8)>>
WideIndexTips  == <<Pt(-5, -27), Pt(-12, -30), Pt(-5, 28), Pt(-30, -14), Pt(-5, -20)>>
WideMiddleTips == <<Pt(0, -28), Pt(3, -30), Pt(-2, 29), Pt(-1, 30), Pt(-29, -12),
                    Pt(0, -20)>>
WideRingTips   == <<Pt(5, -12), Pt(5, -30), Pt(5, -22)>>
WidePinkyTips  == <<Pt(9, -11), Pt(9, -19)>>

NumWideHands ==
    Len(WideThumbTips) * Len(WideIndexTips) * Len(WideMiddleTips)
        * Len(WideRingTips) * Len(WidePinkyTips)

\* the i-th hand of the family (from 0), as the 21 landmarks
WideHandAt(i) ==
    LET t == i % Len(WideThumbTips)
        i1 == i \div Len(WideThumbTips)
        x == i1 % Len(WideIndexTips)
        i2 == i1 \div Len(WideIndexTips)
        m == i2 % Len(WideMiddleTips)
        i3 == i2 \div Len(WideMiddleTips)
        r == i3 % Len(WideRingTips)
        p == (i3 \div Len(WideRingTips)) % Len(WidePinkyTips)
        hand == WideHand(WideThumbTips[t + 1], WideIndexTips[x + 1],
                         WideMiddleTips[m + 1], WideRingTips[r + 1],
                         WidePinkyTips[p + 1])
    IN  [k \in 0..20 |-> hand[k + 1]]

InitWide ==
    /\ HookInit
    /\ Running
    /\ mode = "static"
    /\ clock = StartTime
    /\ env = [kind |-> "classifyWide", seen |-> {}]

ClassifyWide ==
    /\ frameNo < NumWideHands
    /\ \E r \in {recognizeASL(WideHandAt(frameNo))} :
         /\ detectionResult' = [letter |-> r.letter, confidence |-> r.confidence,
                                handDetected |-> TRUE]
         /\ env' = [env EXCEPT !.seen = @ \cup {r.letter}]
    /\ frameNo' = frameNo + 1
    /\ UNCHANGED <<mode, clock, motionDetectionResult, detectedText, detectionHistory,
                   lastDetectionTime, handDetectedFrames, handLostFrames,
                   isHandStable, motionFrames, lastMotionTime, faceResults,
                   faceDetectionState, appended, tick>>
    /\ UNCHANGED lifeVars

NextWide == ClassifyWide

SpecWide == InitWide /\ [][NextWide]_vars

-----------------------------------------------------------------------------
(* Environment 8 (SpecLife): the camera is started and stopped.  The       *)
(* screen calls initialize() and stop() at any time, the awaited promises  *)
(* settle in any order, and every frame shows the three-finger hand.       *)

MaxInitCalls == 2
MaxStopCalls == 2
MaxFired == 4
MaxLifeFrames == 3

InitLife ==
    /\ HookInit
    /\ Constructed
    /\ mode \in {"static", "motion"}
    /\ clock = StartTime
    /\ env = [kind |-> "lifecycle"]

InitializeCalled ==
    /\ runtime.inits < MaxInitCalls
    /\ initialize

StopCalled ==
    /\ runtime.stops < MaxStopCalls
    /\ stop

CloseSettled == \E i \in 1..Len(runtime.calls) : StopAfterClose(i)

StopReturned == \E i \in 1..Len(runtime.calls) : InitializeAfterStop(i)

MediaGranted == \E i \in 1..Len(runtime.calls) : InitializeAfterMedia(i, TRUE)

MediaDenied == \E i \in 1..Len(runtime.calls) : InitializeAfterMedia(i, FALSE)

VideoPlaying == \E i \in 1..Len(runtime.calls) : InitializeAfterVideo(i)

AnimationFrame ==
    /\ runtime.fired < MaxFired
    /\ \E id \in runtime.raf : processFrame(id)

HandsSettled ==
    /\ frameNo < MaxLifeFrames
    /\ \E i \in 1..Len(runtime.calls), rejected \in BOOLEAN :
         ProcessFrameAfterHands(i, TRUE, Lm("three", 50, 70), 700, rejected)

FaceSettled ==
    \E i \in 1..Len(runtime.calls) : ProcessFrameAfterFace(i, NoFace)

NextLife ==
    \/ InitializeCalled \/ StopCalled \/ CloseSettled \/ StopReturned
    \/ MediaGranted \/ MediaDenied \/ VideoPlaying
    \/ AnimationFrame \/ HandsSettled \/ FaceSettled

SpecLife == InitLife /\ [][NextLife]_vars

-----------------------------------------------------------------------------
(* Environment 9 (SpecText): spelling.  Every frame shows one of three     *)
(* hand shapes (classified A 0.9, M 0.75 and Z 0.7), frames arrive 1300 ms *)
(* apart, and between frames the user presses the space, backspace and     *)
(* clear buttons; env.edits counts the buttons pressed so far and          *)
(* env.backspaced records that backspace was among them.                   *)

MaxTextFrames == 3
MaxEdits == 2

TextPoses == {"thumbUp", "w", "diagonal"}

\* the recognition state the text buttons leave alone, and that of clearText
keptByEdit == <<mode, clock, detectionResult, motionDetectionResult,
                lastDetectionTime, handDetectedFrames, handLostFrames, isHandStable,
                motionFrames, lastMotionTime, faceResults, faceDetectionState,
                frameNo, appended, tick>>

InitText ==
    /\ HookInit
    /\ Running
    /\ mode = "static"
    /\ clock = StartTime
    /\ env = [kind |-> "text", edits |-> 0, backspaced |-> FALSE]

LetterFrame ==
    /\ frameNo < MaxTextFrames
    /\ \E pose \in TextPoses :
         ProcessFrame(TRUE, Lm(pose, 50, 70), NoFace, 1300, 0, Computed)

SpacePressed ==
    /\ env.edits < MaxEdits
    /\ addSpace
    /\ env' = [env EXCEPT !.edits = @ + 1]
    /\ UNCHANGED <<detectionHistory, keptByEdit, lifeVars>>

BackspacePressed ==
    /\ env.edits < MaxEdits
    /\ backspace
    /\ env' = [env EXCEPT !.edits = @ + 1, !.backspaced = TRUE]
    /\ UNCHANGED <<detectionHistory, keptByEdit, lifeVars>>

ClearPressed ==
    /\ env.edits < MaxEdits
    /\ clearText
    /\ env' = [env EXCEPT !.edits = @ + 1]
    /\ UNCHANGED <<keptByEdit, lifeVars>>

NextText == LetterFrame \/ SpacePressed \/ BackspacePressed \/ ClearPressed

SpecText == InitText /\ [][NextText]_vars

-----------------------------------------------------------------------------
(* Properties.                                                             *)

\* the detector results of the cycle run by the last frame
CyclePatterns == tick.patterns[1]
Emitted == motionDetectionResult.gesture

\* C1: after any sequence of processed frames, with or without a hand and
\* with or without gesture matches, the motion frame buffer holds at most 20
\* entries.
BufferAtMost20 == Len(motionFrames) <= 20

\* the buffer is full and at least one frame has been evicted
BufferFullAfterEviction == Len(motionFrames) = 20 /\ Len(appended) > 20

\* C2: eviction is FIFO: after k hand frames appended since the buffer was
\* last cleared, the buffer holds exactly the min(k, 20) most recently appended
\* frames in arrival order (after 25 appends: frames 6..25).
BufferIsLatestInOrder ==
    LET k == Len(appended)
        n == IF k < 20 THEN k ELSE 20
    IN  /\ Len(motionFrames) = n
        /\ \A i \in 1..n : motionFrames[i] = appended[k - n + i]

\* 25 frames appended without a match: the buffer is frames 6..25
BufferAfter25Appends ==
    /\ Len(appended) = 25
    /\ Len(motionFrames) = 20
    /\ motionFrames[1] = appended[6]
    /\ motionFrames[20] = appended[25]
    /\ motionFrames[1] # motionFrames[20]

\* C3: a letter is committed only if the last 2 qualifying entries of the
\* detection history are identical, i.e. only after the same letter qualified
\* on two consecutive qualifying frames since the history was last cleared; a
\* single qualifying classification never commits on its own.
CommitNeedsTwoQualifying ==
    tick.committed =>
        LET h == tick.historyAfterPush
        IN  /\ Len(h) >= 2
            /\ h[Len(h)] = tick.letter
            /\ h[Len(h) - 1] = tick.letter

\* C4: a classification enters the detection history only if its confidence
\* exceeds 0.7 and more than 1200 ms have passed since the last commit
\* timestamp; so two successive commits are more than 1200 ms apart.
QualifyWindow ==
    [][(detectionHistory' # detectionHistory \/ lastDetectionTime' # lastDetectionTime)
        => /\ tick'.confidence > 70
           /\ clock' - lastDetectionTime > 1200
           /\ lastDetectionTime' # lastDetectionTime
                => lastDetectionTime' - lastDetectionTime > 1200]_vars

\* a second commit, 1300 ms after the first
SecondCommit ==
    /\ tick.committed
    /\ tick.now - tick.elapsed > 0
    /\ tick.elapsed = 1300
    /\ lastDetectionTime = tick.now

\* C5: a commit of the letter the text already ends with leaves the text
\* unchanged; a commit of a different letter appends exactly that letter, once.
CommitIdempotent ==
    tick.committed =>
        LET before == tick.textBefore
        IN  IF before # <<>> /\ before[Len(before)] = tick.letter
            THEN detectedText = before
            ELSE /\ Len(detectedText) = Len(before) + 1
                 /\ SubSeq(detectedText, 1, Len(before)) = before
                 /\ detectedText[Len(detectedText)] = tick.letter

\* two different letters committed, then the second one committed again
RepeatedCommit ==
    /\ tick.committed
    /\ Len(tick.textBefore) = 2
    /\ tick.textBefore[1] # tick.textBefore[2]
    /\ tick.textBefore[2] = tick.letter
    /\ detectedText = tick.textBefore

\* C6: the detectors run on a fixed 2000 ms cadence: more than 2000 ms pass
\* between any two consecutive detector cycles, whether or not the earlier one
\* matched.
CadenceFixed ==
    (tick.cycleRan /\ tick.prevCycle >= 0) => tick.motionNow - tick.prevCycle > 2000

\* the stated priority of the detectors, and the gesture each one stands for
Rank ==
    [wave |-> 1, thankYou |-> 2, please |-> 3, help |-> 4, love |-> 5,
     sorry |-> 6, yes |-> 7, no |-> 8]
GestureOf ==
    [wave |-> "HELLO", thankYou |-> "THANK YOU", please |-> "PLEASE",
     help |-> "HELP", love |-> "LOVE", sorry |-> "SORRY", yes |-> "YES",
     no |-> "NO"]
MatchedDetectors == {d \in DOMAIN Rank : CyclePatterns[d].detected}
HighestMatched ==
    CHOOSE d \in MatchedDetectors : \A e \in MatchedDetectors : Rank[d] <= Rank[e]

\* C7: for every combination of the 8 detector outcomes the emitted gesture is
\* that of the highest-priority matched detector in the order hello >
\* thank_you > please > help > love > sorry > yes > no; none if none matched.
PriorityArbitration ==
    tick.cycleRan =>
        IF MatchedDetectors = {}
        THEN Emitted = Null
        ELSE /\ Emitted = GestureOf[HighestMatched]
             /\ motionDetectionResult.confidence = CyclePatterns[HighestMatched].confidence

\* help, love, sorry and no matched together: HELP is emitted
HelpOverLowerGestures ==
    /\ tick.cycleRan
    /\ MatchedDetectors = {"help", "love", "sorry", "no"}
    /\ Emitted = "HELP"

\* C8 as stated: whenever please and sorry both match, PLEASE is emitted, and
\* whenever thank_you and yes both match, THANK YOU is emitted.
ExclusionEmitsFirstOfPair ==
    tick.cycleRan =>
        /\ (CyclePatterns.please.detected /\ CyclePatterns.sorry.detected)
              => Emitted = "PLEASE"
        /\ (CyclePatterns.thankYou.detected /\ CyclePatterns.yes.detected)
              => Emitted = "THANK YOU"

\* C8: whenever please and sorry both match, SORRY is not emitted, and PLEASE
\* is unless hello or thank_you matched too (then HELLO, else THANK YOU, is);
\* whenever thank_you and yes both match, YES is not emitted, and THANK YOU is
\* unless hello matched too (then HELLO is).
ExclusionUnderPriority ==
    tick.cycleRan =>
        /\ (CyclePatterns.please.detected /\ CyclePatterns.sorry.detected)
              => /\ Emitted # "SORRY"
                 /\ Emitted = IF CyclePatterns.wave.detected THEN "HELLO"
                              ELSE IF CyclePatterns.thankYou.detected THEN "THANK YOU"
                              ELSE "PLEASE"
        /\ (CyclePatterns.thankYou.detected /\ CyclePatterns.yes.detected)
              => /\ Emitted # "YES"
                 /\ Emitted = IF CyclePatterns.wave.detected THEN "HELLO"
                              ELSE "THANK YOU"

\* thank_you, yes and hello match in one cycle: HELLO is emitted
HelloOverThankYouAndYes ==
    /\ tick.cycleRan
    /\ CyclePatterns.thankYou.detected
    /\ CyclePatterns.yes.detected
    /\ CyclePatterns.wave.detected
    /\ Emitted = "HELLO"

\* C9: whatever subset of the detectors matched, a cycle emits zero or one
\* gesture: the result is either one gesture name with motionDetected true or
\* the neutral value (gesture none, confidence 0, motionDetected false).
OneGesturePerCycle ==
    tick.cycleRan =>
        /\ Len(tick.emissions) <= 1
        /\ IF tick.emissions = <<>>
           THEN motionDetectionResult =
                    [gesture |-> Null, confidence |-> 0, motionDetected |-> FALSE]
           ELSE /\ motionDetectionResult = tick.emissions[1]
                /\ motionDetectionResult.motionDetected
                /\ \E d \in DOMAIN GestureOf : Emitted = GestureOf[d]

\* three or more detectors matched and one gesture was emitted
SeveralMatchedOneEmitted ==
    /\ tick.cycleRan
    /\ Cardinality(MatchedDetectors) >= 3
    /\ Len(tick.emissions) = 1
    /\ motionDetectionResult.motionDetected

\* C10: on a match the buffer is emptied in the same tick and the cadence
\* timer is set to that tick's time, so no frame that was in the buffer at a
\* match is still there at a later cycle.
ClearedOnMatch ==
    /\ tick.matched => motionFrames = <<>> /\ lastMotionTime = tick.motionNow
    /\ \A i \in 1..Len(motionFrames) : motionFrames[i].timestamp > lastMotionTime

\* a later cycle, after a match, over a refilled buffer
CycleAfterMatch ==
    /\ tick.cycleRan
    /\ ~tick.matched
    /\ lastMotionTime > 0
    /\ Len(motionFrames) >= 10

\* C11: on a cycle in which no gesture is emitted the result is the neutral
\* value (gesture none, confidence 0, motionDetected false) and the buffer is
\* left as it was, the frame just appended included.
NoMatchKeepsBuffer ==
    (tick.cycleRan /\ tick.emissions = <<>>) =>
        /\ motionDetectionResult =
               [gesture |-> Null, confidence |-> 0, motionDetected |-> FALSE]
        /\ motionFrames = tick.buffer
        /\ motionFrames # <<>>
        /\ motionFrames[Len(motionFrames)].timestamp = tick.motionNow

\* the first cycle after a match finds nothing: the gesture gives way to the
\* neutral value and the refilled buffer stays
NeutralAfterGesture ==
    /\ tick.cycleRan
    /\ tick.emissions = <<>>
    /\ lastMotionTime > 0
    /\ tick.prevCycle = lastMotionTime
    /\ Len(motionFrames) >= 3

\* C12: starting from not stable, the hand becomes stably present only after
\* 3 consecutive frames with a tracked hand; after 1 or 2 it is still not
\* stable.
StableOnlyAfterThreeHandFrames ==
    (isHandStable /\ ~tick.stableBefore) => tick.handRun >= 3

\* C13: once stably present, the hand becomes stably absent only after 5
\* consecutive frames without a hand; during a run of 1 to 4 such frames, and
\* on the hand frame that follows it, isHandStable stays true.
UnstableOnlyAfterFiveLostFrames ==
    /\ (tick.stableBefore /\ ~isHandStable) => tick.lostRun >= 5
    /\ (tick.stableBefore /\ tick.lostRun \in 1..4) => isHandStable
    /\ (tick.stableBefore /\ tick.hasHands) => isHandStable

\* the fifth consecutive frame without a hand ends stable presence
LostAtFifthFrame ==
    /\ tick.stableBefore
    /\ ~isHandStable
    /\ tick.lostRun = 5
    /\ handLostFrames = 5

\* C14 as stated: after every frame without a tracked hand the text is
\* unchanged and the live result is the no-hand value.
NoHandFrameReportsNoHand ==
    (frameNo > 0 /\ ~tick.hasHands) =>
        /\ detectedText = tick.textBefore
        /\ detectionResult = [letter |-> Null, confidence |-> 0, handDetected |-> FALSE]

\* C14: after every frame without a tracked hand the text is unchanged; the
\* live result is the no-hand value when the hand is not stably present after
\* the frame, and is left as it was while it still is (fewer than 5
\* consecutive frames without a hand since stable presence).
NoHandFrameReportsNoHandOnceUnstable ==
    (frameNo > 0 /\ ~tick.hasHands) =>
        /\ detectedText = tick.textBefore
        /\ ~isHandStable =>
              detectionResult = [letter |-> Null, confidence |-> 0, handDetected |-> FALSE]
        /\ isHandStable => detectionResult = tick.resultBefore

\* a frame without a hand, during stable presence: the last letter is still shown
StaleLetterWithoutHand ==
    /\ frameNo > 0
    /\ ~tick.hasHands
    /\ isHandStable
    /\ detectionResult.handDetected
    /\ detectionResult.letter = "A"
    /\ detectedText # <<>>

\* C15: after each processed frame chinDetected is true iff a face was tracked
\* in that same frame; the cue is cleared on any frame without a face, frames
\* without a hand included.
FaceCueIsCurrentFrame ==
    (frameNo > 0 /\ mode = "motion") =>
        (faceDetectionState.chinDetected
            <=> (faceResults.set /\ Len(faceResults.multiFaceLandmarks) > 0))

\* the hand classified by the last step, and its finger states
ClassifiedHand == HandAt(frameNo - 1)
ClassifiedFingers == getFingerStates(ClassifiedHand)
Classified == env.kind = "classify" /\ frameNo > 0

\* C16: with zero extended fingers and the thumb tip closer to the wrist than
\* 0.7 x the index MCP, recognizeASL returns E with confidence 0.9.
TuckedFistIsE ==
    Classified =>
        LET lm == ClassifiedHand
            f == ClassifiedFingers
        IN  (/\ ~f.thumb /\ ~f.index /\ ~f.middle /\ ~f.ring /\ ~f.pinky
             /\ 100 * Dist2(lm[4], lm[0]) < 49 * Dist2(lm[5], lm[0]))
            => detectionResult.letter = "E" /\ detectionResult.confidence = 90

\* a fist with the thumb tucked in at 0.64 x the reference distance is E
TuckedFistSeen ==
    /\ Classified
    /\ ClassifiedHand[4] = Pt(-3, -6)
    /\ ClassifiedHand[8] = Pt(-3, -12)
    /\ ~ClassifiedFingers.middle /\ ~ClassifiedFingers.ring /\ ~ClassifiedFingers.pinky
    /\ detectionResult.letter = "E"

\* the letters of the thumb-only rules, in the stated order
ThumbOnlyRank == [O |-> 1, T |-> 2, A |-> 3]

\* C17 as stated: with only the thumb extended the result is O below a
\* thumb-tip to index-tip distance of 0.12 and not O from 0.12 on, and as that
\* distance grows the result moves through O, then T, then A, never back.
ThumbOnlyMonotoneOTA ==
    /\ Classified /\ OnlyThumb(ClassifiedFingers) =>
          (detectionResult.letter = "O"
              <=> Dist2(ClassifiedHand[4], ClassifiedHand[8]) < 144)
    /\ env.kind = "classify" =>
          \A a, b \in env.onlyThumb :
              a.dist2 < b.dist2 => ThumbOnlyRank[a.letter] <= ThumbOnlyRank[b.letter]

\* C17: with only the thumb extended the result is O (0.85) iff the thumb-tip
\* to index-tip distance is below 0.12; from exactly 0.12 on it is T (0.8) if
\* the thumb tip is within 0.12 of both the index PIP and the middle PIP, and
\* A (0.9) otherwise; so O never follows T or A as the distance grows.
ThumbOnlyThresholds ==
    /\ Classified /\ OnlyThumb(ClassifiedFingers) =>
          LET lm == ClassifiedHand
              d2 == Dist2(lm[4], lm[8])
              nearPips == Dist2(lm[4], lm[6]) < 144 /\ Dist2(lm[4], lm[10]) < 144
          IN  detectionResult =
                  IF d2 < 144 THEN [letter |-> "O", confidence |-> 85, handDetected |-> TRUE]
                  ELSE IF nearPips
                       THEN [letter |-> "T", confidence |-> 80, handDetected |-> TRUE]
                       ELSE [letter |-> "A", confidence |-> 90, handDetected |-> TRUE]
    /\ env.kind = "classify" =>
          \A a, b \in env.onlyThumb :
              (a.dist2 < b.dist2 /\ b.letter = "O") => a.letter = "O"

\* the thumb tip exactly 0.12 from the index tip: A, not O
ThumbAtExactlyTwelve ==
    /\ Classified
    /\ OnlyThumb(ClassifiedFingers)
    /\ Dist2(ClassifiedHand[4], ClassifiedHand[8]) = 144
    /\ detectionResult.letter = "A"
    /\ \E a, b \in env.onlyThumb : a.dist2 < b.dist2 /\ a.letter = "A" /\ b.letter = "T"

\* C18: index and thumb extended (only), index pointing down: Q; index, middle
\* and thumb extended, index pointing down: P.
PointingDownIsQOrP ==
    Classified =>
        LET lm == ClassifiedHand
            f == ClassifiedFingers
            pointingDown == lm[8].y > lm[5].y + 5
        IN  /\ (f.thumb /\ f.index /\ ~f.middle /\ ~f.ring /\ ~f.pinky /\ pointingDown)
                  => detectionResult.letter = "Q"
            /\ (f.thumb /\ f.index /\ f.middle /\ ~f.ring /\ ~f.pinky /\ pointingDown)
                  => detectionResult.letter = "P"

\* the 26 letters
Letters ==
    {"A", "B", "C", "D", "E", "F", "G", "H", "I", "J", "K", "L", "M",
     "N", "O", "P", "Q", "R", "S", "T", "U", "V", "W", "X", "Y", "Z"}

\* C19: every letter A-Z is returned by recognizeASL for at least one hand.
EveryLetterReturned ==
    (env.kind = "classify" /\ frameNo = NumHands) => Letters \subseteq env.seen

\* C20: in static mode no sequence of frames sets the motion detection result
\* to a gesture: motionDetected stays false and the gesture stays none.
StaticModeNoGesture ==
    mode = "static" =>
        ~motionDetectionResult.motionDetected /\ motionDetectionResult.gesture = Null

\* the minimum buffer length each detector asks for
MinFrames ==
    [wave |-> 8, thankYou |-> 6, please |-> 10, help |-> 6, love |-> 4,
     sorry |-> 8, yes |-> 10, no |-> 3]

\* C21: a detector returns none when the buffer is shorter than its minimum
\* length (hello 8, thank_you 6, please 10, help 6, love 4, sorry 8, yes 10,
\* no 3), so a cycle over fewer than 3 frames emits no gesture.
DetectorsNeedMinimumFrames ==
    tick.cycleRan =>
        /\ \A d \in DOMAIN MinFrames :
               Len(tick.buffer) < MinFrames[d] => CyclePatterns[d] = NoPattern
        /\ Len(tick.buffer) < 3 =>
               tick.emissions = <<>> /\ ~motionDetectionResult.motionDetected

\* a cycle over the two frames that followed a match, of a hand shape the No
\* detector counts
ShortBufferAfterMatch ==
    /\ tick.cycleRan
    /\ lastMotionTime > 0
    /\ Len(tick.buffer) = 2
    /\ \A i \in 1..2 : tick.buffer[i].timestamp > lastMotionTime
    /\ \A i \in 1..2 :
           LET f == getFingerStates(Points(tick.buffer[i].landmarks))
           IN  f.thumb /\ f.index /\ f.middle /\ ~f.ring /\ ~f.pinky

\* C22: after stop() has completed the motion buffer and the detection
\* history are empty, so that a later initialize() starts from an empty
\* buffer and an empty history.
StopDiscardsTemporalState ==
    runtime.stopped => motionFrames = <<>> /\ detectionHistory = <<>>

\* the frame loops alive: a pending frame request, or a processFrame call
\* that will request the next frame when its await settles
FrameLoops == Cardinality(runtime.raf) + Cardinality(InFlight(runtime, "processFrame"))

\* C23: under every interleaving of initialize(), stop() and the processFrame
\* loop at most one self-rescheduling frame loop is alive, and once stop() has
\* completed no frame is scheduled.
OneFrameLoop ==
    /\ FrameLoops <= 1
    /\ runtime.stopped => runtime.raf = {}

\* the hand of the wide family classified last
WideClassified == env.kind = "classifyWide" /\ frameNo > 0
WideClassifiedHand == WideHandAt(frameNo - 1)
WideClassifiedFingers == getFingerStates(WideClassifiedHand)

\* index and middle extended, ring and pinky curled
IndexMiddleGroup ==
    LET f == WideClassifiedFingers
    IN  f.index /\ f.middle /\ ~f.ring /\ ~f.pinky

\* the result of the blocks U, R, H, V, N taken in that order
GroupOrderResult ==
    LET lm == WideClassifiedHand
        f == WideClassifiedFingers
    IN  FirstMatch(<<RuleU(lm, f), RuleR(lm, f), RuleH(lm, f), RuleV(lm, f),
                     RuleN(lm, f)>>)

\* all five tips between 0.15 and 0.5 from the wrist within a band of 0.15,
\* the four fingers more than 0.2 away
CurvedBand ==
    LET lm == WideClassifiedHand
        d2(i) == Dist2(lm[i], lm[0])
        tips == {4, 8, 12, 16, 20}
        max2 == CHOOSE m \in {d2(i) : i \in tips} : \A i \in tips : d2(i) <= m
        min2 == CHOOSE m \in {d2(i) : i \in tips} : \A i \in tips : d2(i) >= m
        band == max2 - min2 - 225
    IN  /\ max2 < 2500 /\ max2 > 225
        /\ (band < 0 \/ band * band < 900 * min2)
        /\ \A i \in {8, 12, 16, 20} : d2(i) > 400

\* C24 as stated: with index and middle extended and ring and pinky curled the
\* result is K when the thumb is extended, and otherwise the first of U, R, H,
\* V (tip distance > 0.05), N that applies: always one of U, R, H, V, N.
IndexMiddleGroupOrder ==
    (WideClassified /\ IndexMiddleGroup) =>
        IF WideClassifiedFingers.thumb
        THEN detectionResult.letter = "K"
        ELSE /\ detectionResult.letter \in {"U", "R", "H", "V", "N"}
             /\ detectionResult.letter = GroupOrderResult.letter

\* C24, amended: the curved-hand block C and the pointing-down block P stand
\* before the group.  A hand of the group inside the curved band is C; outside
\* it, with the thumb extended it is P when the index points down and K
\* otherwise, and with the thumb curled it is the first of U, R, H, V, N that
\* applies.
IndexMiddleGroupAfterCAndP ==
    (WideClassified /\ IndexMiddleGroup) =>
        LET lm == WideClassifiedHand
            pointingDown == lm[8].y > lm[5].y + 5
            got == [letter |-> detectionResult.letter,
                    confidence |-> detectionResult.confidence]
        IN  IF CurvedBand THEN got = Res("C", 80)
            ELSE IF WideClassifiedFingers.thumb
                 THEN got = IF pointingDown THEN Res("P", 80) ELSE Res("K", 85)
                 ELSE /\ got.letter \in {"U", "R", "H", "V", "N"}
                      /\ got = GroupOrderResult

\* a hand of the group with the thumb curled is classified C, after hands of
\* the group have been classified U, R, H, V, N, K and P
CurvedTwoFingerHand ==
    /\ WideClassified
    /\ IndexMiddleGroup
    /\ ~WideClassifiedFingers.thumb
    /\ detectionResult.letter = "C"
    /\ {"U", "R", "H", "V", "N", "K", "P"} \subseteq env.seen

\* the rule blocks run on the hand classified last
ClassifiedChain == RuleChain(ClassifiedHand, ClassifiedFingers)

\* C25: the second K block and the second V block (blocks 23 and 24) repeat
\* blocks 21 and 22, and recognizeASL without them returns the same letter
\* and confidence on every hand.
DuplicateBlocksRedundant ==
    Classified =>
        LET chain == ClassifiedChain
            once == SubSeq(chain, 1, 22) \o SubSeq(chain, 25, Len(chain))
        IN  /\ chain[23] = chain[21]
            /\ chain[24] = chain[22]
            /\ FirstMatch(once) = [letter |-> detectionResult.letter,
                                   confidence |-> detectionResult.confidence]

\* a hand has been classified K and, before it, another one V
KAndVReturned ==
    /\ Classified
    /\ detectionResult.letter = "K"
    /\ ClassifiedChain[21] = Res("K", 85)
    /\ "V" \in env.seen

\* C26: Thank-You is detected exactly when the hand is open on the first of
\* the last 6 frames, has moved forward by more than 0.06, and either (a) a
\* chin cue is present and the start height is within 0.15 of the chin
\* (confidence 0.9) or (b) no chin cue is present and the start height is in
\* [0.4, 0.7] (confidence 0.8); with a chin cue and a start height not within
\* 0.15 of it, it is not detected.
ThankYouOnlyByTwoBranches ==
    (tick.cycleRan /\ Len(tick.buffer) >= 6) =>
        LET recentFrames == LastN(tick.buffer, 6)
            startY == recentFrames[1].handCenter.y
            startX == recentFrames[1].handCenter.x
            endX == recentFrames[6].handCenter.x
            open == IsFlatHand(recentFrames[1])
            forward == endX < startX - C(6)
            cue == faceDetectionState.chinDetected
            nearChin == cue /\ Abs(startY - C(faceDetectionState.chinPosition.y)) < C(15)
            inBand == startY >= C(40) /\ startY <= C(70)
            result == CyclePatterns.thankYou
        IN  /\ (open /\ forward /\ nearChin) => result = Pattern("thank_you", 90)
            /\ (open /\ forward /\ ~cue /\ inBand) => result = Pattern("thank_you", 80)
            /\ ~(open /\ forward /\ (nearChin \/ (~cue /\ inBand))) => result = NoPattern

\* the vertical steps of the window the Yes detector looked at in the last
\* cycle: YesStep(i) is the step into its i-th frame
YesWindow == LastN(tick.buffer, 10)
YesStep(i) == YesWindow[i].handCenter.y - YesWindow[i - 1].handCenter.y

\* the reversals between upward and downward: the steps that move against the
\* last step before them that moved at all
YesReversals ==
    {i \in 3..Len(YesWindow) :
        /\ YesStep(i) # 0
        /\ \E j \in 2..(i - 1) :
              /\ YesStep(j) # 0
              /\ Sign(YesStep(j)) = -Sign(YesStep(i))
              /\ \A k \in (j + 1)..(i - 1) : YesStep(k) = 0}

\* C27: Yes is detected only for an up-down oscillation: over the last 10
\* frames, the first a fist with the thumb extended, the vertical direction
\* reverses between upward and downward at least twice and the absolute
\* vertical movement adds up to more than 0.1; a trajectory that moves in one
\* vertical direction only, with or without stationary frames, is not Yes.
YesOnlyForOscillation ==
    (tick.cycleRan /\ Det(CyclePatterns.yes)) =>
        /\ Len(tick.buffer) >= 10
        /\ IsFist(YesWindow[1])
        /\ Cardinality(YesReversals) >= 2
        /\ \E i, j \in 2..10 : YesStep(i) > 0 /\ YesStep(j) < 0

\* C28: after any sequence of letter commits, addSpace, backspace and
\* clearText, detectedText never has the same letter twice in a row: two equal
\* neighbours are spaces.
NoDoubledLetter ==
    \A i \in 1..(Len(detectedText) - 1) :
        detectedText[i] = detectedText[i + 1] => detectedText[i] = " "

\* after a backspace the text ends with a letter, a frame shows that letter
\* again and its commit is dropped
CommitDroppedAfterBackspace ==
    /\ env.kind = "text"
    /\ env.backspaced
    /\ tick.committed
    /\ Len(detectedText) >= 2
    /\ detectedText = tick.textBefore
    /\ detectedText[Len(detectedText)] = tick.letter

\* C29: a letter whose confidence is not above 0.7 is never committed, so Z
\* (confidence exactly 0.7) never enters detectedText, while a letter with
\* confidence 0.75 or more is committed by a frame more than 1200 ms after the
\* last commit.
OnlyAbove70Committed ==
    [][frameNo' # frameNo =>
          /\ \A i \in 1..Len(detectedText') : detectedText'[i] # "Z"
          /\ tick'.letter = "Z" => tick'.confidence = 70
          /\ tick'.confidence <= 70 =>
                 ~tick'.committed /\ detectedText' = detectedText
          /\ (tick'.letter # Null /\ tick'.confidence >= 75 /\ tick'.elapsed > 1200) =>
                 /\ tick'.committed
                 /\ detectedText' # <<>>
                 /\ detectedText'[Len(detectedText')] = tick'.letter]_vars

\* the letter M (confidence 0.75) is in the text, and a frame that came more
\* than 1200 ms after the last commit showed Z and left the text alone
ZShownAfterM ==
    /\ env.kind = "text"
    /\ tick.letter = "Z"
    /\ tick.elapsed > 1200
    /\ ~tick.committed
    /\ detectedText # <<>>
    /\ detectedText[Len(detectedText)] = "M"

\* the chain in source order with the two suppression guards removed
BranchesUnguarded(p) ==
    <<[guard |-> Det(p.wave),     gesture |-> "HELLO",     confidence |-> p.wave.confidence],
      [guard |-> Det(p.thankYou), gesture |-> "THANK YOU", confidence |-> p.thankYou.confidence],
      [guard |-> Det(p.please),   gesture |-> "PLEASE",    confidence |-> p.please.confidence],
      [guard |-> Det(p.help),     gesture |-> "HELP",      confidence |-> p.help.confidence],
      [guard |-> Det(p.love),     gesture |-> "LOVE",      confidence |-> p.love.confidence],
      [guard |-> Det(p.sorry),    gesture |-> "SORRY",     confidence |-> p.sorry.confidence],
      [guard |-> Det(p.yes),      gesture |-> "YES",       confidence |-> p.yes.confidence],
      [guard |-> Det(p.no),       gesture |-> "NO",        confidence |-> p.no.confidence]>>

\* what the chain without the guards sets on the detector results of the
\* last cycle
UnguardedEmissions ==
    LET bs == BranchesUnguarded(CyclePatterns)
        taken == {i \in 1..Len(bs) : bs[i].guard /\ \A j \in 1..(i - 1) : ~bs[j].guard}
    IN  [i \in 1..Cardinality(taken) |->
            LET b == bs[CHOOSE k \in taken : Cardinality({j \in taken : j <= k}) = i]
            IN  [gesture |-> b.gesture, confidence |-> b.confidence,
                 motionDetected |-> TRUE]]

\* C30: the two suppression guards (sorry requires please not matched, yes
\* requires thank_you not matched) never change the outcome: on every
\* combination of detector results the chain without them emits what the
\* chain with them emits.
GuardsChangeNothing ==
    tick.cycleRan =>
        /\ tick.emissions = UnguardedEmissions
        /\ motionDetectionResult =
               IF UnguardedEmissions = <<>> THEN NeutralMotion
               ELSE UnguardedEmissions[Len(UnguardedEmissions)]

\* both guards bite: sorry with please and yes with thank_you are matched
\* and hello is not
BothGuardsBite ==
    /\ tick.cycleRan
    /\ ~Det(CyclePatterns.wave)
    /\ Det(CyclePatterns.sorry) /\ Det(CyclePatterns.please)
    /\ Det(CyclePatterns.yes) /\ Det(CyclePatterns.thankYou)
    /\ motionDetectionResult.gesture = "THANK YOU"

====
